---- MODULE Spec2Model ----
(***************************************************************************)
(* A model of run_bitcoin_tests.  network_utils: the stderr classifier,    *)
(* the retrying git runner (run_git_command_with_retry), the repository    *)
(* cache (GitCache) and clone_bitcoin_repo_enhanced.  thread_utils: the    *)
(* file-system lock, docker_container_lock and emergency_cleanup.  main:   *)
(* the workflow of main().  config: load_config.  performance_utils:       *)
(* PerformanceMonitor.                                                     *)
(*                                                                         *)
(* Strings are TLA+ strings; substring search, lower() and strip() are     *)
(* computed character by character as Python computes them.                *)
(***************************************************************************)
EXTENDS Integers, Sequences, FiniteSets, TLC

VARIABLES
    \* ---- run_git_command_with_retry (one call) ----
    rpc,            \* "idle" | "loop" | "returned" | "raised"
    max_retries,    \* the max_retries argument
    retry_delay,    \* the retry_delay argument
    attempt,        \* the loop variable of `for attempt in range(max_retries)`
    calls,          \* number of subprocess.run executions so far
    slept,          \* the durations passed to time.sleep, in order
    hist,           \* the class of each attempt's outcome, in order
    error_msg,      \* error_msg of the latest failed attempt ("" if none)
    raised,         \* the exception class the call raised ("none" if none)
    result,         \* which execution's CompletedProcess was returned (0: none)
    last_exception, \* the local last_exception ("none" for None)
    \* ---- GitCache ----
    metadata,       \* self._metadata: repo_hash -> entry
    meta_file,      \* the contents of cache_metadata.json
    disk,           \* the directories of cache_dir: repo_hash -> directory
    clock,          \* time.time()
    op,             \* the latest cache operation, its arguments and result
    \* ---- clone_bitcoin_repo_enhanced ----
    target,         \* the directories used as target_dir: path -> directory
    call,           \* the latest call of clone_bitcoin_repo_enhanced
    \* ---- threads using the cache directory ----
    _file_system_lock, \* the thread holding thread_utils._file_system_lock
    thread,         \* what each thread is doing: [pc, key]
    cache_dirs,     \* the state of each cache entry's directory
    \* ---- main ----
    main_pc,        \* where main is
    config,         \* the configuration load_config returned
    steps,          \* the functions main called and how each ended, in order
    caught,          \* str(exc) of the exception an except clause caught
    label,          \* the error label the `except Exception` clause printed
    tests_exit,     \* what run_tests returned (-1: nothing)
    exit_code,      \* the exit status of the process (-1: running)
    \* ---- load_config ----
    load_pc,        \* "not started" | "start" | "returned" | "ValueError"
    argv,           \* the flags given on the command line
    environ,        \* os.environ
    env_file,       \* the assignments of the .env file
    app_config,     \* config_manager.config
    \* ---- docker_container_lock ----
    _docker_lock,   \* the RLock: [owner, count]
    _active_containers, \* the set of tracked container names
    contexts,       \* per thread: the contexts it is inside, and how its
                    \* latest entry or exit went
    \* ---- emergency_cleanup ----
    _temp_directories, \* the set of tracked temporary directories
    _cleanup_handlers, \* the list of registered handlers
    cleanup,        \* the call of emergency_cleanup: where it is, what it
                    \* has attempted
    \* ---- concurrent calls of clone_bitcoin_repo_enhanced ----
    cloner,         \* per thread: where its call is, and whether its git clone
                    \* created the directory
    target_state,   \* target_dir: "absent" | "partial" | "present"
    \* ---- PerformanceMonitor ----
    _monitoring,    \* self._monitoring
    _thread,        \* self._thread: the latest sampling thread (0: None)
    live,           \* the sampling threads that have not ended
    spawned,        \* how many sampling threads were started
    caller          \* per thread: where it is in start_/stop_monitoring

retryVars == <<rpc, max_retries, retry_delay, attempt, calls, slept, hist,
               error_msg, raised, result, last_exception>>

cacheVars == <<metadata, meta_file, disk, clock, op>>

cloneVars == <<target, call>>

fsVars == <<_file_system_lock, thread, cache_dirs>>

\* The state of network_utils, and the state outside it.
networkVars == <<retryVars, cacheVars, cloneVars>>

mainVars == <<main_pc, config, steps, caught, label, tests_exit, exit_code>>

configVars == <<load_pc, argv, environ, env_file, app_config>>

dockerVars == <<_docker_lock, _active_containers, contexts>>

cleanupVars == <<_temp_directories, _cleanup_handlers, cleanup>>

raceVars == <<cloner, target_state>>

monitorVars == <<_monitoring, _thread, live, spawned, caller>>

otherVars == <<fsVars, mainVars, configVars, dockerVars, cleanupVars,
    raceVars,
    monitorVars>>

\* What the actions of one component leave alone besides their own state.
notRetryVars == <<cacheVars, cloneVars, otherVars>>

notCacheVars == <<retryVars, cloneVars, otherVars>>

notFsVars == <<networkVars, mainVars, configVars, dockerVars, cleanupVars,
    raceVars,
    monitorVars>>

notMainVars == <<networkVars, fsVars, configVars, dockerVars, cleanupVars,
    raceVars,
    monitorVars>>

notConfigVars == <<networkVars, fsVars, mainVars, dockerVars, cleanupVars,
    raceVars,
    monitorVars>>

notDockerVars == <<networkVars, fsVars, mainVars, configVars, cleanupVars,
    raceVars,
    monitorVars>>

\* emergency_cleanup works on _docker_lock and _active_containers as well.
notCleanupVars == <<networkVars, fsVars, mainVars, configVars, contexts,
    raceVars,
    monitorVars>>

\* The concurrent calls work on _file_system_lock as well.
notRaceVars == <<networkVars, thread, cache_dirs, mainVars, configVars,
    dockerVars, cleanupVars,
    monitorVars>>

notMonitorVars == <<networkVars, fsVars, mainVars, configVars, dockerVars,
    cleanupVars, raceVars>>

vars == <<networkVars, otherVars>>

(***************************************************************************)
(* Python string primitives.                                               *)
(***************************************************************************)

\* str.lower() on one character (ASCII).
LowerChar(c) ==
    CASE c = "A" -> "a" [] c = "B" -> "b" [] c = "C" -> "c" [] c = "D" -> "d"
      [] c = "E" -> "e" [] c = "F" -> "f" [] c = "G" -> "g" [] c = "H" -> "h"
      [] c = "I" -> "i" [] c = "J" -> "j" [] c = "K" -> "k" [] c = "L" -> "l"
      [] c = "M" -> "m" [] c = "N" -> "n" [] c = "O" -> "o" [] c = "P" -> "p"
      [] c = "Q" -> "q" [] c = "R" -> "r" [] c = "S" -> "s" [] c = "T" -> "t"
      [] c = "U" -> "u" [] c = "V" -> "v" [] c = "W" -> "w" [] c = "X" -> "x"
      [] c = "Y" -> "y" [] c = "Z" -> "z" [] OTHER -> c

RECURSIVE lower(_)
\* str.lower(), character by character (split in halves to keep the
\* recursion shallow).
lower(s) ==
    IF Len(s) = 0 THEN ""
    ELSE IF Len(s) = 1 THEN LowerChar(s)
    ELSE LET h == Len(s) \div 2
         IN  lower(SubSeq(s, 1, h)) \o lower(SubSeq(s, h + 1, Len(s)))

IsSpace(c) == c \in {" ", "\t", "\n", "\r"}

\* str.strip(): from the first to the last non-blank character.
strip(s) ==
    LET keep == { i \in 1..Len(s) : ~IsSpace(SubSeq(s, i, i)) }
    IN  IF keep = {} THEN ""
        ELSE SubSeq(s, CHOOSE i \in keep : \A k \in keep : i <= k,
                       CHOOSE i \in keep : \A k \in keep : i >= k)

\* `needle in hay`
Contains(hay, needle) ==
    \E i \in 1..(Len(hay) - Len(needle) + 1) :
        SubSeq(hay, i, i + Len(needle) - 1) = needle

\* any(indicator.lower() in error_msg.lower() for indicator in indicators)
AnyIndicator(indicators, msg) ==
    LET m == lower(msg) IN \E ind \in indicators : Contains(m, lower(ind))

(***************************************************************************)
(* The keyword predicates.                                                 *)
(***************************************************************************)

network_indicators ==
    { "network is unreachable", "connection refused", "connection timed out",
      "connection reset", "no route to host",
      "temporary failure in name resolution", "could not resolve host",
      "failed to connect", "network error", "transfer closed with",
      "the remote end hung up unexpectedly" }

ssl_indicators ==
    { "ssl certificate", "ssl verification", "tls",
      "certificate verify failed", "self signed certificate",
      "certificate has expired", "unable to verify the first certificate" }

auth_indicators ==
    { "authentication failed", "permission denied", "access denied",
      "not authorized", "invalid credentials", "repository not found",
      "does not exist", "remote: invalid username or password" }

repo_indicators ==
    { "repository not found", "does not exist",
      "remote: repository not found", "remote: access denied",
      "remote: permission to",
      "remote: the repository you are trying to access does not exist",
      "fatal: remote error:", "fatal: could not read from remote repository" }

disk_indicators ==
    { "no space left on device", "disk full", "insufficient disk space",
      "out of disk space", "disk quota exceeded" }

\* _is_network_error with the one-word indicator "remote" added to the list.
IsNetworkErrorBroadKeyword(msg) ==
    AnyIndicator(network_indicators \cup {"remote"}, msg)

_is_network_error(msg) == AnyIndicator(network_indicators, msg)

_is_ssl_error(msg) == AnyIndicator(ssl_indicators, msg)

_is_authentication_error(msg) == AnyIndicator(auth_indicators, msg)

_is_repository_error(msg) == AnyIndicator(repo_indicators, msg)

_is_disk_space_error(msg) == AnyIndicator(disk_indicators, msg)

(***************************************************************************)
(* What the git process can print.  stderr is one or two diagnostic lines  *)
(* joined as git joins them; stdout is the fallback the code reads when    *)
(* stderr is blank.                                                        *)
(***************************************************************************)

Fragments ==
    << "fatal: unable to access: SSL certificate problem: self signed certificate",
       "gnutls_handshake() failed",
       "fatal: write error: No space left on device",
       "remote: Repository not found",
       "fatal: Could not read from remote repository",
       "Permission denied (publickey)",
       "Could not resolve host: github.com",
       "error: pathspec 'x' did not match" >>

\* Every keyword of the five lists, as a text of its own.
Keywords ==
    ssl_indicators \cup disk_indicators \cup repo_indicators
        \cup auth_indicators \cup network_indicators

\* <<stderr, stdout>> of a failed run: a bare keyword, one diagnostic, two diagnostics, or a
\* blank stderr with the text on stdout.
FailureOutputs ==
    { <<Fragments[i], "">> : i \in DOMAIN Fragments }
        \cup { <<k, "">> : k \in Keywords }
        \cup { <<Fragments[i] \o "\n" \o Fragments[j] \o "\n", "">> :
                   i \in DOMAIN Fragments, j \in DOMAIN Fragments }
        \cup ({ "", "  \n" } \X
                  { "", "Could not resolve host: github.com\n",
                    "Permission denied (publickey)" })

\* error_msg = result.stderr.strip() or result.stdout.strip()
ErrorMsgOf(stderr, stdout) ==
    IF strip(stderr) # "" THEN strip(stderr) ELSE strip(stdout)

\* The function on S, as an explicit table (@@ yields the enumerated
\* function).
ErrorMsgTableOn(S) == [o \in S |-> ErrorMsgOf(o[1], o[2])] @@ <<>>

\* ErrorMsgOf, tabulated once over the outputs (a fixed finite set).
ErrorMsgTable == ErrorMsgTableOn(FailureOutputs)

ErrorMsgs == { ErrorMsgTable[o] : o \in FailureOutputs }

PermanentErrors ==
    { "SSLError", "DiskSpaceError", "RepositoryError", "AuthenticationError" }

\* Category with the Authentication test ahead of the Repository test.
CategoryAuthBeforeRepo(msg) ==
    IF _is_ssl_error(msg) THEN "SSLError"
    ELSE IF _is_disk_space_error(msg) THEN "DiskSpaceError"
    ELSE IF _is_authentication_error(msg) THEN "AuthenticationError"
    ELSE IF _is_repository_error(msg) THEN "RepositoryError"
    ELSE IF _is_network_error(msg) THEN "NetworkConnectionError"
    ELSE "RuntimeError"

\* The if-chain of run_git_command_with_retry on a non-zero exit: the error
\* the branch taken is about.
Category(msg) ==
    IF _is_ssl_error(msg) THEN "SSLError"
    ELSE IF _is_disk_space_error(msg) THEN "DiskSpaceError"
    ELSE IF _is_repository_error(msg) THEN "RepositoryError"
    ELSE IF _is_authentication_error(msg) THEN "AuthenticationError"
    ELSE IF _is_network_error(msg) THEN "NetworkConnectionError"
    ELSE "RuntimeError"

\* The function on S, as an explicit table (@@ yields the enumerated
\* function).
CategoryTableOn(S) == [m \in S |-> Category(m)] @@ <<>>

\* Category, tabulated once over the texts (a fixed finite set).
CategoryOf == CategoryTableOn(ErrorMsgs)

(***************************************************************************)
(* run_git_command_with_retry.  One action per loop iteration: the         *)
(* subprocess.run call, the classification of its outcome, and whichever   *)
(* of return / raise / sleep-and-continue the iteration ends in.           *)
(***************************************************************************)

MaxRetries == 3

RetryDelays == {5, 10}

\* What one subprocess.run call can do.
Outcomes ==
    { [kind |-> "exit", returncode |-> 128, output |-> o] : o \in FailureOutputs }
        \cup { [kind |-> "exit", returncode |-> 0, output |-> <<"", "ok">>],
               [kind |-> "TimeoutExpired"], [kind |-> "OSError"] }

\* The class of an attempt's outcome, as recorded in hist.
OutcomeClass(out) ==
    IF out.kind = "exit"
    THEN IF out.returncode = 0 THEN "Success"
         ELSE CategoryOf[ErrorMsgTable[out.output]]
    ELSE out.kind

\* `except Exception as exc:` -- every exception raised in the try body that
\* is not subprocess.TimeoutExpired lands here, the typed errors raised by the
\* body itself included.  Result: <<what the iteration does, last_exception>>.
ExceptException(exc, att, maxr, last) ==
    IF att < maxr - 1
    THEN <<[do |-> "continue", exc |-> "none"], exc>>
    ELSE <<[do |-> "raise", exc |-> exc], exc>>

\* RetryableBranch retrying while attempt < max_retries.
RetryableBranchOffByOne(exc, att, maxr, last) ==
    IF att < maxr
    THEN <<[do |-> "continue", exc |-> "none"], last>>
    ELSE ExceptException(exc, att, maxr, last)

\* The branches for Network errors and for Generic errors.
RetryableBranch(exc, att, maxr, last) ==
    IF att < maxr - 1
    THEN <<[do |-> "continue", exc |-> "none"], last>>
    ELSE ExceptException(exc, att, maxr, last)

\* ExceptTimeout sleeping and continuing on the last attempt as well.
ExceptTimeoutNeverRaises(att, maxr, last) ==
    <<[do |-> "continue", exc |-> "none"], last>>

\* `except subprocess.TimeoutExpired:`
ExceptTimeout(att, maxr, last) ==
    IF att < maxr - 1
    THEN <<[do |-> "continue", exc |-> "none"], last>>
    ELSE <<[do |-> "raise", exc |-> "NetworkTimeoutError"], last>>

\* The `if result.returncode != 0:` block.
NonZeroExit(out, att, maxr, last) ==
    LET cat == CategoryOf[ErrorMsgTable[out.output]] IN
    IF cat \in PermanentErrors
    THEN ExceptException(cat, att, maxr, last)
    ELSE RetryableBranch(cat, att, maxr, last)

\* Iteration in which an exit 0 before the last attempt does not leave the
\* loop.
IterationReturnAfterLoop(out, att, maxr, last) ==
    IF out.kind = "TimeoutExpired" THEN ExceptTimeout(att, maxr, last)
    ELSE IF out.kind = "OSError" THEN ExceptException("OSError", att, maxr, last)
    ELSE IF out.returncode # 0 THEN NonZeroExit(out, att, maxr, last)
    ELSE IF att < maxr - 1 THEN <<[do |-> "continue", exc |-> "none"], last>>
    ELSE <<[do |-> "return", exc |-> "none"], last>>

\* The body of the for loop for one outcome of subprocess.run.
Iteration(out, att, maxr, last) ==
    IF out.kind = "TimeoutExpired" THEN ExceptTimeout(att, maxr, last)
    ELSE IF out.kind = "OSError" THEN ExceptException("OSError", att, maxr, last)
    ELSE IF out.returncode # 0 THEN NonZeroExit(out, att, maxr, last)
    ELSE <<[do |-> "return", exc |-> "none"], last>>

\* SleepArgument growing with the attempt number.
SleepArgumentGrowing(delay, att) == delay * (att + 1)

\* The argument of every time.sleep of the loop: time.sleep(retry_delay).
SleepArgument(delay, att) == delay

RetryInit ==
    /\ rpc = "idle"
    /\ max_retries = 0
    /\ retry_delay = 0
    /\ attempt = 0
    /\ calls = 0
    /\ slept = <<>>
    /\ hist = <<>>
    /\ error_msg = ""
    /\ raised = "none"
    /\ result = 0
    /\ last_exception = "none"

\* The call: last_exception = None, and the loop is entered.
CallRunGit ==
    /\ rpc = "idle"
    /\ \E m \in 0..MaxRetries, d \in RetryDelays :
          /\ max_retries' = m
          /\ retry_delay' = d
    /\ rpc' = "loop"
    /\ attempt' = 0
    /\ UNCHANGED <<calls, slept, hist, error_msg, raised, result, last_exception>>
    /\ UNCHANGED notRetryVars

\* One iteration of `for attempt in range(max_retries)`.
Attempt ==
    /\ rpc = "loop"
    /\ attempt < max_retries
    /\ \E out \in Outcomes :
          LET r   == Iteration(out, attempt, max_retries, last_exception)
              act == r[1]
          IN  /\ calls' = calls + 1
              /\ hist' = Append(hist, OutcomeClass(out))
              /\ error_msg' = IF out.kind = "exit" /\ out.returncode # 0
                              THEN ErrorMsgTable[out.output]
                              ELSE error_msg
              /\ last_exception' = r[2]
              /\ slept' = IF act.do = "continue"
                          THEN Append(slept, SleepArgument(retry_delay, attempt))
                          ELSE slept
              /\ attempt' = IF act.do = "continue" THEN attempt + 1 ELSE attempt
              /\ rpc' = CASE act.do = "continue" -> "loop"
                          [] act.do = "return"   -> "returned"
                          [] act.do = "raise"    -> "raised"
              /\ raised' = act.exc
              /\ result' = IF act.do = "return" THEN calls + 1 ELSE result
    /\ UNCHANGED <<max_retries, retry_delay>>
    /\ UNCHANGED notRetryVars

\* The statement after the loop:
\*   raise last_exception or RuntimeError("Git command failed with unknown error")
AfterLoop ==
    /\ rpc = "loop"
    /\ attempt >= max_retries
    /\ rpc' = "raised"
    /\ raised' = IF last_exception # "none" THEN last_exception ELSE "RuntimeError"
    /\ UNCHANGED <<max_retries, retry_delay, attempt, calls, slept, hist,
                   error_msg, result, last_exception>>
    /\ UNCHANGED notRetryVars

(***************************************************************************)
(* The file system as GitCache sees it.  A directory is the set of the     *)
(* files below it (each a path: a sequence of names) and its st_mtime.     *)
(***************************************************************************)

NoDir == [exists |-> FALSE, files |-> {}, mtime |-> 0]

Dir(files, mtime) == [exists |-> TRUE, files |-> files, mtime |-> mtime]

\* The loose ref file of a branch.
RefFile(branch) == <<".git", "refs", "heads", branch>>

\* st_size of a file.
SizeOfFile(path) ==
    CASE path = <<"README.md">>      -> 2
      [] path = <<"src", "big.bin">> -> 4
      [] OTHER                       -> 1

RECURSIVE SumSizes(_)
SumSizes(files) ==
    IF files = {} THEN 0
    ELSE LET f == CHOOSE x \in files : TRUE
         IN  SizeOfFile(f) + SumSizes(files \ {f})

\* sum(f.stat().st_size for f in item.rglob("*") if f.is_file())
DirSize(d) == SumSizes(d.files)

\* The (url, branch) pairs the cache is used with.
Pairs ==
    { [url |-> "https://h/r",   branch |-> "main"],
      [url |-> "https://h/r@x", branch |-> "main"],
      [url |-> "https://h/r",   branch |-> "x@main"],
      [url |-> "https://h/r",   branch |-> "rel.tmp"] }

\* The directories cache_repo is given as source_path.
SourcePaths == {"bitcoin", "bitcoin_rel", "missing"}

SourceDir(source_path) ==
    CASE source_path = "bitcoin" ->
           Dir({ <<".git", "HEAD">>, RefFile("main"), RefFile("x@main"),
                 <<".git", "index.lock">>, <<"README.md">>,
                 <<"build", "obj.tmp">> }, 2)
      [] source_path = "bitcoin_rel" ->
           Dir({ <<".git", "HEAD">>, RefFile("rel.tmp"), <<"README.md">>,
                 <<"src", "big.bin">> }, 1)
      [] OTHER -> NoDir

\* hashlib.sha256(content.encode()).hexdigest()[:16]: taken to be free of
\* collisions, so a digest is told apart by the text that was hashed.
sha256_hex16(content) == "sha256:" \o content

\* content = f"{repo_url}@{branch}"
HashedContent(repo_url, branch) == repo_url \o "@" \o branch

_get_repo_hash(repo_url, branch) == sha256_hex16(HashedContent(repo_url, branch))

RepoHashes == { _get_repo_hash(p.url, p.branch) : p \in Pairs }

\* max_cache_size_gb, in the unit the file sizes are counted in.
MaxCacheSize == 8

\* The latest value time.time() may take.
MaxClock == 2

\* fnmatch.fnmatch(name, "*.tmp")
EndsWithTmp(name) ==
    Len(name) >= 4 /\ SubSeq(name, Len(name) - 3, Len(name)) = ".tmp"

\* shutil.ignore_patterns("*.tmp", ".git/index.lock") on one name: a name
\* holds no "/", so the second pattern can only match a name equal to it.
IgnoredName(name) == EndsWithTmp(name) \/ name = ".git/index.lock"

\* copytree skips a path when the name of the file, or of a directory above
\* it, is ignored.
IgnoredPath(path) == \E i \in DOMAIN path : IgnoredName(path[i])

\* The tree shutil.copytree(source, dst, ignore=...) makes; copystat gives
\* dst the source directory's mtime.
CopyTree(src) == Dir({ f \in src.files : ~IgnoredPath(f) }, src.mtime)

\* (cache_path / ".git").exists()
HasGitMarker(d) == \E f \in d.files : f[1] = ".git"

\* git show-ref --verify --quiet refs/heads/<branch>, cwd=cache_path:
\* exit 0 when the repository holds the ref.
ShowRefReturnCode(d, branch) ==
    IF <<".git", "HEAD">> \in d.files /\ RefFile(branch) \in d.files
    THEN 0 ELSE 1

\* dict without a key, and with a key set.
Without(m, k) == [x \in (DOMAIN m) \ {k} |-> m[x]]

With(m, k, v) == [x \in (DOMAIN m) \cup {k} |-> IF x = k THEN v ELSE m[x]]

EmptyMetadata == [x \in {} |-> 0]

\* _save_metadata: the file is rewritten, unless opening or writing it
\* raises IOError, which is logged and swallowed.
_save_metadata(m, f, io_ok) == IF io_ok THEN m ELSE f

ExistingDirs(d) == { k \in DOMAIN d : d[k].exists }

RECURSIVE SumDirSizes(_, _)
SumDirSizes(d, keys) ==
    IF keys = {} THEN 0
    ELSE LET k == CHOOSE x \in keys : TRUE
         IN  DirSize(d[k]) + SumDirSizes(d, keys \ {k})

\* The combined on-disk size of the cache entries.
TotalSize(d) == SumDirSizes(d, ExistingDirs(d))

(***************************************************************************)
(* GitCache._cleanup_old_cache.                                            *)
(***************************************************************************)

\* What can go wrong inside _cleanup_old_cache: cache_dir.iterdir() raising,
\* the size scan of one entry raising OSError, shutil.rmtree of one entry
\* raising OSError, the metadata file not being writable.
CleanupFaults ==
    { [kind |-> "none", key |-> ""], [kind |-> "iterdir", key |-> ""],
      [kind |-> "save", key |-> ""] }
        \cup { [kind |-> "scan", key |-> k] : k \in RepoHashes }
        \cup { [kind |-> "rmtree", key |-> k] : k \in RepoHashes }

\* cache_entries: the directories whose size could be read.
ScannedEntries(d, fault) ==
    { k \in ExistingDirs(d) : ~(fault.kind = "scan" /\ fault.key = k) }

\* cache_entries.sort(key=lambda x: x[2]): oldest mtime first; entries of
\* equal mtime keep the order iterdir() listed them in, which is any order.
SortedByMtime(d, entries) ==
    { order \in [1..Cardinality(entries) -> entries] :
        /\ \A i, j \in DOMAIN order : i # j => order[i] # order[j]
        /\ \A i, j \in DOMAIN order : i < j => d[order[i]].mtime <= d[order[j]].mtime }

\* UnderTarget stopping at the cap itself instead of 80% of it.
UnderTargetAtFullLimit(total) == total <= MaxCacheSize

\* if total_size_gb <= target_size: break    (target_size = max * 0.8)
UnderTarget(total) == 10 * total <= 8 * MaxCacheSize

RECURSIVE RemoveOldest(_, _, _, _, _, _)
\* for cache_path, size, _ in cache_entries: ...
\* Result: [disk, metadata, failed], failed telling whether an rmtree raised.
RemoveOldest(order, i, total, d, m, fault) ==
    IF i > Len(order) \/ UnderTarget(total)
    THEN [disk |-> d, metadata |-> m, failed |-> FALSE]
    ELSE LET k == order[i] IN
         IF fault.kind = "rmtree" /\ fault.key = k
         THEN [RemoveOldest(order, i + 1, total, d, m, fault)
                   EXCEPT !.failed = TRUE]
         ELSE RemoveOldest(order, i + 1, total - DirSize(d[k]),
                           [d EXCEPT ![k] = NoDir],
                           IF k \in DOMAIN m THEN Without(m, k) ELSE m, fault)

\* The states _cleanup_old_cache can leave: [disk, metadata, meta_file,
\* fault, why], fault naming what went wrong in the run ("none": nothing)
\* and why telling which way `if total_size_gb > self.max_cache_size_gb` went.
_cleanup_old_cache(d, m, f, fault) ==
    IF fault.kind = "iterdir"
    THEN { [disk |-> d, metadata |-> m, meta_file |-> f, fault |-> "iterdir",
            why |-> "not measured"] }
    ELSE LET entries == ScannedEntries(d, fault)
             total   == SumDirSizes(d, entries)
             scan    == IF entries # ExistingDirs(d) THEN "scan" ELSE "none"
         IN  IF total > MaxCacheSize
             THEN { [disk      |-> r.disk,
                     metadata  |-> r.metadata,
                     meta_file |-> _save_metadata(r.metadata, f, fault.kind # "save"),
                     fault     |-> IF r.failed THEN "rmtree"
                                   ELSE IF fault.kind = "save" THEN "save"
                                   ELSE scan,
                     why       |-> "over cap"] :
                    r \in { RemoveOldest(order, 1, total, d, m, fault) :
                              order \in SortedByMtime(d, entries) } }
             ELSE { [disk |-> d, metadata |-> m, meta_file |-> f, fault |-> scan,
                     why |-> "within cap"] }

NoOp ==
    [name |-> "none", url |-> "", branch |-> "", source |-> "", ret |-> "",
     why |-> "", fault |-> "none"]

CacheInit ==
    /\ metadata = EmptyMetadata
    /\ meta_file = EmptyMetadata
    /\ disk = [k \in RepoHashes |-> NoDir]
    /\ clock = 0
    /\ op = NoOp

\* A call of _cleanup_old_cache on its own.
CleanupOldCache ==
    /\ \E fault \in CleanupFaults :
         \E r \in _cleanup_old_cache(disk, metadata, meta_file, fault) :
            /\ disk' = r.disk
            /\ metadata' = r.metadata
            /\ meta_file' = r.meta_file
            /\ op' = [NoOp EXCEPT !.name = "_cleanup_old_cache",
                                  !.why = r.why, !.fault = r.fault]
    /\ UNCHANGED clock
    /\ UNCHANGED notCacheVars

(***************************************************************************)
(* GitCache.get_cached_repo.                                               *)
(***************************************************************************)

\* What the `git show-ref` subprocess can do: run to its exit code, exceed
\* the 10 s timeout, or not start because git is not installed.
GitRuns == {"exit", "TimeoutExpired", "FileNotFoundError"}

\* get_cached_repo keeping the entry when show-ref exits non-zero.
GetCachedRepoKeepOnBadRef(m, f, d, repo_url, branch, git, io_ok) ==
    LET repo_hash == _get_repo_hash(repo_url, branch)
        drop(why) == [ret |-> "None", why |-> why,
                      metadata  |-> Without(m, repo_hash),
                      meta_file |-> _save_metadata(Without(m, repo_hash), f, io_ok),
                      fault     |-> IF io_ok THEN "none" ELSE "save"]
        keep(ret, why) == [ret |-> ret, why |-> why, metadata |-> m,
                           meta_file |-> f, fault |-> "none"]
    IN  IF repo_hash \notin DOMAIN m THEN keep("None", "miss")
        ELSE IF ~d[repo_hash].exists THEN drop("no directory")
        ELSE IF ~HasGitMarker(d[repo_hash]) THEN drop("no .git")
        ELSE IF git # "exit" THEN keep("None", git)
        ELSE IF ShowRefReturnCode(d[repo_hash], branch) # 0
             THEN keep("None", "no branch ref")
        ELSE keep(repo_hash, "hit")

\* Result: [ret, why, metadata, meta_file, fault].
get_cached_repo(m, f, d, repo_url, branch, git, io_ok) ==
    LET repo_hash == _get_repo_hash(repo_url, branch)
        drop(why) == [ret |-> "None", why |-> why,
                      metadata  |-> Without(m, repo_hash),
                      meta_file |-> _save_metadata(Without(m, repo_hash), f, io_ok),
                      fault     |-> IF io_ok THEN "none" ELSE "save"]
        keep(ret, why) == [ret |-> ret, why |-> why, metadata |-> m,
                           meta_file |-> f, fault |-> "none"]
    IN  IF repo_hash \notin DOMAIN m THEN keep("None", "miss")
        ELSE IF ~d[repo_hash].exists THEN drop("no directory")
        ELSE IF ~HasGitMarker(d[repo_hash]) THEN drop("no .git")
        ELSE IF git # "exit" THEN keep("None", git)
        ELSE IF ShowRefReturnCode(d[repo_hash], branch) # 0
             THEN drop("no branch ref")
        ELSE keep(repo_hash, "hit")

GetCachedRepo ==
    /\ \E p \in Pairs, git \in GitRuns, io_ok \in BOOLEAN :
         LET r == get_cached_repo(metadata, meta_file, disk, p.url, p.branch,
                                  git, io_ok)
         IN  /\ metadata' = r.metadata
             /\ meta_file' = r.meta_file
             /\ op' = [NoOp EXCEPT !.name = "get_cached_repo",
                                   !.url = p.url, !.branch = p.branch,
                                   !.ret = r.ret, !.why = r.why,
                                   !.fault = r.fault]
    /\ UNCHANGED <<disk, clock>>
    /\ UNCHANGED notCacheVars

(***************************************************************************)
(* GitCache.cache_repo and GitCache.clear_cache.                           *)
(***************************************************************************)

\* What can go wrong in cache_repo after the cleanup: shutil.rmtree of the
\* old entry raising, shutil.copytree failing on every file or on the files
\* outside .git (it copies what it can and raises at the end), the metadata
\* file not being writable.
StoreFaults == {"none", "rmtree", "copytree all", "copytree worktree", "save"}

\* What a failing copytree leaves at the destination.
PartialCopy(src, fault) ==
    IF fault = "copytree all" THEN Dir({}, src.mtime)
    ELSE Dir({ f \in CopyTree(src).files : f[1] = ".git" }, src.mtime)

\* The metadata entry cache_repo records.
Entry(repo_url, branch, now, source_path) ==
    [repo_url |-> repo_url, branch |-> branch, cached_at |-> now,
     source_path |-> source_path]

\* Store returning True, with the entry recorded, whatever copytree did.
StoreTrueOnFailedCopy(c, now, repo_url, branch, source_path, fault) ==
    LET repo_hash == _get_repo_hash(repo_url, branch)
        src       == SourceDir(source_path)
        removed   == [c.disk EXCEPT ![repo_hash] = NoDir]
        m2        == With(c.metadata, repo_hash,
                          Entry(repo_url, branch, now, source_path))
    IN  IF c.disk[repo_hash].exists /\ fault = "rmtree"
        THEN [ret |-> FALSE, disk |-> c.disk, metadata |-> c.metadata,
              meta_file |-> c.meta_file, fault |-> "rmtree"]
        ELSE [ret |-> TRUE,
              disk |-> IF ~src.exists THEN removed
                       ELSE IF fault \in {"copytree all", "copytree worktree"}
                       THEN [removed EXCEPT ![repo_hash] = PartialCopy(src, fault)]
                       ELSE [removed EXCEPT ![repo_hash] = CopyTree(src)],
              metadata |-> m2,
              meta_file |-> _save_metadata(m2, c.meta_file, fault # "save"),
              fault |-> IF ~src.exists THEN "no source"
                        ELSE IF fault = "rmtree" THEN c.fault ELSE fault]

\* The part of cache_repo after self._cleanup_old_cache(), from the state
\* c the cleanup left.  Result: [ret, disk, metadata, meta_file, fault].
Store(c, now, repo_url, branch, source_path, fault) ==
    LET repo_hash == _get_repo_hash(repo_url, branch)
        src       == SourceDir(source_path)
        removed   == [c.disk EXCEPT ![repo_hash] = NoDir]
        m2        == With(c.metadata, repo_hash,
                          Entry(repo_url, branch, now, source_path))
    IN  IF c.disk[repo_hash].exists /\ fault = "rmtree"
        THEN [ret |-> FALSE, disk |-> c.disk, metadata |-> c.metadata,
              meta_file |-> c.meta_file, fault |-> "rmtree"]
        ELSE IF ~src.exists
        THEN [ret |-> FALSE, disk |-> removed, metadata |-> c.metadata,
              meta_file |-> c.meta_file, fault |-> "no source"]
        ELSE IF fault \in {"copytree all", "copytree worktree"}
        THEN [ret |-> FALSE,
              disk |-> [removed EXCEPT ![repo_hash] = PartialCopy(src, fault)],
              metadata |-> c.metadata, meta_file |-> c.meta_file,
              fault |-> fault]
        ELSE [ret |-> TRUE,
              disk |-> [removed EXCEPT ![repo_hash] = CopyTree(src)],
              metadata |-> m2,
              meta_file |-> _save_metadata(m2, c.meta_file, fault # "save"),
              fault |-> IF fault = "save" THEN "save"
                        ELSE IF c.fault # "none" THEN "cleanup " \o c.fault
                        ELSE "none"]

\* cache_repo: the states it can leave, with its return value.
cache_repo(m, f, d, now, repo_url, branch, source_path, cfault, sfault) ==
    { Store(c, now, repo_url, branch, source_path, sfault) :
        c \in _cleanup_old_cache(d, m, f, cfault) }

CacheRepo ==
    /\ clock < MaxClock
    /\ \E p \in Pairs, source_path \in SourcePaths,
          cfault \in CleanupFaults, sfault \in StoreFaults :
         /\ cfault.kind = "none" \/ sfault = "none"
         /\ \E r \in cache_repo(metadata, meta_file, disk, clock + 1, p.url,
                                p.branch, source_path, cfault, sfault) :
              /\ disk' = r.disk
              /\ metadata' = r.metadata
              /\ meta_file' = r.meta_file
              /\ op' = [NoOp EXCEPT !.name = "cache_repo",
                                    !.url = p.url, !.branch = p.branch,
                                    !.source = source_path,
                                    !.ret = IF r.ret THEN "True" ELSE "False",
                                    !.fault = r.fault]
    /\ clock' = clock + 1
    /\ UNCHANGED notCacheVars

\* What can go wrong in clear_cache: iterdir() raising, rmtree(ignore_errors
\* =True) silently leaving one directory, the metadata file not writable.
ClearFaults ==
    { [kind |-> "none", key |-> ""], [kind |-> "iterdir", key |-> ""],
      [kind |-> "save", key |-> ""] }
        \cup { [kind |-> "rmtree", key |-> k] : k \in RepoHashes }

\* clear_cache leaving self._metadata as it is.
clear_cacheKeepsMetadata(m, f, d, fault) ==
    IF fault.kind = "iterdir"
    THEN [disk |-> d, metadata |-> m, meta_file |-> f, fault |-> "iterdir"]
    ELSE [disk |-> [k \in DOMAIN d |->
                      IF fault.kind = "rmtree" /\ fault.key = k THEN d[k] ELSE NoDir],
          metadata |-> m,
          meta_file |-> _save_metadata(EmptyMetadata, f, fault.kind # "save"),
          fault |-> IF fault.kind = "rmtree" /\ ~d[fault.key].exists
                    THEN "none" ELSE fault.kind]

\* Result: [disk, metadata, meta_file, fault].
clear_cache(m, f, d, fault) ==
    IF fault.kind = "iterdir"
    THEN [disk |-> d, metadata |-> m, meta_file |-> f, fault |-> "iterdir"]
    ELSE [disk |-> [k \in DOMAIN d |->
                      IF fault.kind = "rmtree" /\ fault.key = k THEN d[k] ELSE NoDir],
          metadata |-> EmptyMetadata,
          meta_file |-> _save_metadata(EmptyMetadata, f, fault.kind # "save"),
          fault |-> IF fault.kind = "rmtree" /\ ~d[fault.key].exists
                    THEN "none" ELSE fault.kind]

ClearCache ==
    /\ \E fault \in ClearFaults :
         LET r == clear_cache(metadata, meta_file, disk, fault)
         IN  /\ disk' = r.disk
             /\ metadata' = r.metadata
             /\ meta_file' = r.meta_file
             /\ op' = [NoOp EXCEPT !.name = "clear_cache", !.fault = r.fault]
    /\ UNCHANGED clock
    /\ UNCHANGED notCacheVars

(***************************************************************************)
(* What happens to the cache directory from outside the class.             *)
(***************************************************************************)

\* shutil.rmtree(cached / ".git"): a cached entry loses its .git directory.
RemoveGitDir ==
    /\ \E k \in DOMAIN disk :
         /\ disk[k].exists /\ HasGitMarker(disk[k])
         /\ disk' = [disk EXCEPT ![k] =
                        Dir({ f \in disk[k].files : f[1] # ".git" }, clock)]
    /\ op' = NoOp
    /\ UNCHANGED <<metadata, meta_file, clock>>
    /\ UNCHANGED notCacheVars

\* A cached entry's directory is deleted.
RemoveEntryDir ==
    /\ \E k \in DOMAIN disk :
         /\ disk[k].exists
         /\ disk' = [disk EXCEPT ![k] = NoDir]
    /\ op' = NoOp
    /\ UNCHANGED <<metadata, meta_file, clock>>
    /\ UNCHANGED notCacheVars

\* GitCache.__init__ in a new process: self._metadata = self._load_metadata()
NewProcess ==
    /\ metadata' = meta_file
    /\ op' = NoOp
    /\ UNCHANGED <<meta_file, disk, clock>>
    /\ UNCHANGED notCacheVars

CacheNext ==
    \/ CleanupOldCache
    \/ GetCachedRepo
    \/ CacheRepo
    \/ ClearCache
    \/ RemoveGitDir
    \/ RemoveEntryDir
    \/ NewProcess

(***************************************************************************)
(* clone_bitcoin_repo_enhanced.  One action per call: the cache lookup,    *)
(* the copy from the cache with its git checkout, the check for an         *)
(* existing directory, the git clone and the caching of the clone.         *)
(***************************************************************************)

\* max_retries of the git checkout call (the default of the parameter).
CheckoutMaxRetries == 3

\* max_retries of the git clone call.
CloneMaxRetries == 3

\* What one execution of git checkout or git clone can do.
GitOutcomes ==
    { [kind |-> "exit", returncode |-> 128, output |-> <<Fragments[i], "">>] :
         i \in {1, 6, 7, 8} }
        \cup { [kind |-> "exit", returncode |-> 0, output |-> <<"", "ok">>],
               [kind |-> "TimeoutExpired"] }

RECURSIVE RunGitFrom(_, _, _, _)
\* run_git_command_with_retry from iteration att on, outs[i] being what the
\* i-th execution does.  Result: [do, exc, msg, calls]: whether the call
\* returns or raises, the class and the error text of what it raises, and
\* the number of executions.
RunGitFrom(outs, att, maxr, last) ==
    IF att >= maxr
    THEN [do |-> "raise",
          exc |-> IF last # "none" THEN last ELSE "RuntimeError",
          msg |-> "", calls |-> att]
    ELSE LET out == outs[att + 1]
             r   == Iteration(out, att, maxr, last)
         IN  IF r[1].do = "continue"
             THEN RunGitFrom(outs, att + 1, maxr, r[2])
             ELSE [do |-> r[1].do, exc |-> r[1].exc,
                   msg |-> IF out.kind = "exit" /\ out.returncode # 0
                           THEN ErrorMsgTable[out.output] ELSE "",
                   calls |-> att + 1]

\* The ways a call of run_git_command_with_retry can end.
run_git_command_with_retry(maxr) ==
    { RunGitFrom(outs, 0, maxr, "none") : outs \in [1..maxr -> GitOutcomes] }

CheckoutResults == run_git_command_with_retry(CheckoutMaxRetries)

CloneResults == run_git_command_with_retry(CloneMaxRetries)

\* The target_dir a branch is cloned to; SourceDir(target_dir) is the tree a
\* successful git clone of that branch leaves there.
TargetDirOf(branch) == IF branch = "rel.tmp" THEN "bitcoin_rel" ELSE "bitcoin"

TargetDirs == { TargetDirOf(p.branch) : p \in Pairs }

NoError == [type |-> "none", msg |-> ""]

\* The record of a call: its arguments, what it did, and how it ended.
NoCall ==
    [seq |-> 0, url |-> "", branch |-> "", target_dir |-> "",
     use_cache |-> FALSE,
     existed |-> FALSE,      \* whether target_dir existed when the call began
     lookup |-> "",          \* why get_cached_repo returned what it did
     hit |-> "none",         \* what became of the copy from the cache
     swallowed |-> NoError,  \* the exception the cache-hit path caught
     cleanup |-> "none",     \* what became of the removal of the failed copy
     checkout_calls |-> 0,   \* executions of git checkout
     clone_calls |-> 0,      \* executions of git clone
     git_raised |-> NoError, \* what the git clone call raised
     cached |-> "not called",\* what cache_repo returned
     outcome |-> "",         \* "returned" or the class of the exception
     msg |-> ""]             \* the error text of the exception

\* `if target_path.exists(): shutil.rmtree(target_path)` under
\* `except Exception: pass`: <<the directory afterwards, what happened>>.
CleanupFailedCopyKeepsQuiet(tdir) ==
    IF ~tdir.exists THEN { <<tdir, "nothing">> }
    ELSE { <<NoDir, "removed">>, <<tdir, "failed">> }

\* The try block of the cache-hit path: the lock, the removal of an
\* existing target, the copy, the checkout.  Result: [ok, dir, hit, exc,
\* calls], dir being what is at target_dir afterwards.
CopyFromCache(cached, tdir) ==
    { [ok |-> FALSE, dir |-> tdir, hit |-> "lock timeout",
       exc |-> [type |-> "TimeoutError", msg |-> ""], calls |-> 0],
      [ok |-> FALSE, dir |-> Dir({ f \in cached.files : f[1] = ".git" }, cached.mtime),
       hit |-> "copytree failed",
       exc |-> [type |-> "shutil.Error", msg |-> ""], calls |-> 0] }
        \cup (IF tdir.exists
              THEN { [ok |-> FALSE, dir |-> tdir, hit |-> "rmtree failed",
                      exc |-> [type |-> "OSError", msg |-> ""], calls |-> 0] }
              ELSE {})
        \cup { [ok |-> r.do = "return",
                dir |-> Dir(cached.files, cached.mtime),
                hit |-> IF r.do = "return" THEN "copied" ELSE "checkout failed",
                exc |-> IF r.do = "return" THEN NoError
                        ELSE [type |-> r.exc, msg |-> r.msg],
                calls |-> r.calls] : r \in CheckoutResults }

\* FreshClone without the caching of the clone.
FreshCloneWithoutCaching(st, now, p, td, use_cache) ==
    { IF r.do = "raise"
      THEN [st EXCEPT !.log.clone_calls = r.calls,
                      !.log.git_raised = [type |-> r.exc, msg |-> r.msg],
                      !.log.outcome = r.exc,
                      !.log.msg = r.msg]
      ELSE [st EXCEPT !.target[td] = SourceDir(td),
                      !.log.clone_calls = r.calls,
                      !.log.outcome = "returned"] :
      r \in CloneResults }

\* FreshClone raising RuntimeError in place of whatever git clone raised.
FreshCloneWrapsErrors(st, now, p, td, use_cache) ==
    { IF r.do = "raise"
      THEN [st EXCEPT !.log.clone_calls = r.calls,
                      !.log.git_raised = [type |-> r.exc, msg |-> r.msg],
                      !.log.outcome = "RuntimeError",
                      !.log.msg = r.msg]
      ELSE [st EXCEPT !.target[td] = SourceDir(td),
                      !.log.clone_calls = r.calls,
                      !.log.outcome = "returned"] :
      r \in CloneResults }

\* The git clone and what follows it, from the state st = [target,
\* metadata, meta_file, disk, log].
FreshClone(st, now, p, td, use_cache) ==
    UNION { IF r.do = "raise"
            THEN { [st EXCEPT !.log.clone_calls = r.calls,
                              !.log.git_raised = [type |-> r.exc, msg |-> r.msg],
                              !.log.outcome = r.exc,
                              !.log.msg = r.msg] }
            ELSE LET cloned == [st EXCEPT !.target[td] = SourceDir(td),
                                          !.log.clone_calls = r.calls,
                                          !.log.outcome = "returned"]
                 IN  IF use_cache
                     THEN { [cloned EXCEPT !.metadata = c.metadata,
                                           !.meta_file = c.meta_file,
                                           !.disk = c.disk,
                                           !.log.cached = IF c.ret THEN "True"
                                                          ELSE "False"] :
                            c \in UNION { cache_repo(st.metadata, st.meta_file,
                                                     st.disk, now, p.url,
                                                     p.branch, td, cf, sf) :
                                          cf \in { x \in CleanupFaults :
                                                     x.kind \in {"none", "save"} },
                                          sf \in StoreFaults } }
                     ELSE { cloned } :
            r \in CloneResults }

\* ExistingOrClone cloning whether or not the directory exists.
ExistingOrCloneAnyway(st, now, p, td, use_cache) ==
    { [st EXCEPT !.log.outcome = "TimeoutError"] }
        \cup FreshClone(st, now, p, td, use_cache)

\* The check for an existing directory and, without one, the fresh clone.
ExistingOrClone(st, now, p, td, use_cache) ==
    { [st EXCEPT !.log.outcome = "TimeoutError"] }
        \cup (IF st.target[td].exists
              THEN { [st EXCEPT !.log.outcome = "returned"] }
              ELSE FreshClone(st, now, p, td, use_cache))

\* The states a call can leave, each [target, metadata, meta_file, disk, log].
clone_bitcoin_repo_enhanced(t, m, f, d, now, p, td, use_cache) ==
    LET log0 == [NoCall EXCEPT !.seq = now, !.url = p.url, !.branch = p.branch,
                               !.target_dir = td, !.use_cache = use_cache,
                               !.existed = t[td].exists]
        st0  == [target |-> t, metadata |-> m, meta_file |-> f, disk |-> d,
                 log |-> log0]
        lookups ==
            IF use_cache
            THEN { get_cached_repo(m, f, d, p.url, p.branch, git, io_ok) :
                     git \in GitRuns, io_ok \in BOOLEAN }
            ELSE { [ret |-> "None", why |-> "not performed", metadata |-> m,
                    meta_file |-> f, fault |-> "none"] }
    IN  UNION {
          LET st1 == [st0 EXCEPT !.metadata = lk.metadata,
                                 !.meta_file = lk.meta_file,
                                 !.log.lookup = lk.why]
          IN  IF lk.ret = "None"
              THEN ExistingOrClone(st1, now, p, td, use_cache)
              ELSE UNION {
                     LET st2 == [st1 EXCEPT !.target[td] = a.dir,
                                            !.log.hit = a.hit,
                                            !.log.swallowed = a.exc,
                                            !.log.checkout_calls = a.calls]
                     IN  IF a.ok
                         THEN { [st2 EXCEPT !.log.outcome = "returned"] }
                         ELSE UNION {
                                ExistingOrClone(
                                    [st2 EXCEPT !.target[td] = c[1],
                                                !.log.cleanup = c[2]],
                                    now, p, td, use_cache) :
                                c \in CleanupFailedCopyKeepsQuiet(a.dir) } :
                     a \in CopyFromCache(d[lk.ret], t[td]) } :
          lk \in lookups }

CloneInit ==
    /\ target = [td \in TargetDirs |-> NoDir]
    /\ call = NoCall

CloneBitcoinRepoEnhanced ==
    /\ clock < MaxClock
    /\ \E p \in Pairs, use_cache \in BOOLEAN :
         \E r \in clone_bitcoin_repo_enhanced(target, metadata, meta_file, disk,
                                              clock + 1, p,
                                              TargetDirOf(p.branch), use_cache) :
            /\ target' = r.target
            /\ metadata' = r.metadata
            /\ meta_file' = r.meta_file
            /\ disk' = r.disk
            /\ call' = r.log
    /\ clock' = clock + 1
    /\ UNCHANGED op
    /\ UNCHANGED <<retryVars, otherVars>>

\* The user deletes a target directory between two calls; the record of the
\* latest call, which may be about that directory, is dropped.
RemoveTargetDir ==
    /\ \E td \in TargetDirs :
         /\ target[td].exists
         /\ target' = [target EXCEPT ![td] = NoDir]
    /\ call' = NoCall
    /\ UNCHANGED <<retryVars, cacheVars, otherVars>>

CloneNext ==
    \/ CloneBitcoinRepoEnhanced
    \/ RemoveTargetDir
    \/ RemoveGitDir

(***************************************************************************)
(* Threads of one process using the cache directory: the copy from the     *)
(* cache to the target (clone_bitcoin_repo_enhanced, under                 *)
(* file_system_lock), and cache_repo, _cleanup_old_cache and clear_cache   *)
(* as GitCache runs them.  One action per step between two points where    *)
(* another thread can run.                                                 *)
(***************************************************************************)

Threads == {"t1", "t2"}

\* The keys of the cache entries the threads work on.
CacheKeys == {"k1", "k2"}

Idle == [pc |-> "idle", key |-> ""]

\* get_cached_repo returned the path of entry k: the thread is about to
\* enter `with file_system_lock(...)`.
CacheHit(t, k) ==
    /\ thread[t] = Idle
    /\ cache_dirs[k] = "whole"
    /\ thread' = [thread EXCEPT ![t] = [pc |-> "acquire", key |-> k]]
    /\ UNCHANGED <<_file_system_lock, cache_dirs>>
    /\ UNCHANGED notFsVars

\* _file_system_lock.acquire(timeout=30.0) returns True; the removal of an
\* existing target, then shutil.copytree(cached_repo, target_path) begins.
AcquireAndCopy(t) ==
    /\ thread[t].pc = "acquire"
    /\ _file_system_lock = "none"
    /\ _file_system_lock' = t
    /\ thread' = [thread EXCEPT ![t].pc = "copytree"]
    /\ UNCHANGED cache_dirs
    /\ UNCHANGED notFsVars

\* acquire returns False after 30 seconds of another thread holding the
\* lock: TimeoutError, caught by the `except Exception` of the hit path.
AcquireTimesOut(t) ==
    /\ thread[t].pc = "acquire"
    /\ _file_system_lock \notin {"none", t}
    /\ thread' = [thread EXCEPT ![t] = Idle]
    /\ UNCHANGED <<_file_system_lock, cache_dirs>>
    /\ UNCHANGED notFsVars

\* copytree ends (or fails), git checkout runs, and the finally of
\* file_system_lock releases the lock.
CopyEnds(t) ==
    /\ thread[t].pc = "copytree"
    /\ _file_system_lock' = "none"
    /\ thread' = [thread EXCEPT ![t] = Idle]
    /\ UNCHANGED cache_dirs
    /\ UNCHANGED notFsVars

\* cache_repo(repo_url, branch, source_path) begins for the entry k: it is
\* in _cleanup_old_cache.  No lock is taken.
CacheRepoBegins(t, k) ==
    /\ thread[t] = Idle
    /\ thread' = [thread EXCEPT ![t] = [pc |-> "cleanup", key |-> k]]
    /\ UNCHANGED <<_file_system_lock, cache_dirs>>
    /\ UNCHANGED notFsVars

\* _cleanup_old_cache deletes the directory of an entry: shutil.rmtree.
CleanupRemoves(t, k) ==
    /\ thread[t].pc = "cleanup"
    /\ cache_dirs[k] # "absent"
    /\ cache_dirs' = [cache_dirs EXCEPT ![k] = "absent"]
    /\ UNCHANGED <<_file_system_lock, thread>>
    /\ UNCHANGED notFsVars

\* cache_repo deletes cache_path if it exists and shutil.copytree(source_path,
\* cache_path) begins.
CacheRepoCopies(t) ==
    /\ thread[t].pc = "cleanup"
    /\ cache_dirs' = [cache_dirs EXCEPT ![thread[t].key] = "partial"]
    /\ thread' = [thread EXCEPT ![t].pc = "caching"]
    /\ UNCHANGED _file_system_lock
    /\ UNCHANGED notFsVars

\* The copytree of cache_repo ends, whole or having failed partway.
CacheRepoEnds(t) ==
    /\ thread[t].pc = "caching"
    /\ \E d \in {"whole", "partial"} :
          cache_dirs' = [cache_dirs EXCEPT ![thread[t].key] = d]
    /\ thread' = [thread EXCEPT ![t] = Idle]
    /\ UNCHANGED _file_system_lock
    /\ UNCHANGED notFsVars

\* clear_cache begins its loop over cache_dir.iterdir().  No lock is taken.
ClearCacheBegins(t) ==
    /\ thread[t] = Idle
    /\ thread' = [thread EXCEPT ![t] = [pc |-> "clearing", key |-> ""]]
    /\ UNCHANGED <<_file_system_lock, cache_dirs>>
    /\ UNCHANGED notFsVars

\* clear_cache deletes one directory: shutil.rmtree(item, ignore_errors=True).
ClearCacheRemoves(t, k) ==
    /\ thread[t].pc = "clearing"
    /\ cache_dirs[k] # "absent"
    /\ cache_dirs' = [cache_dirs EXCEPT ![k] = "absent"]
    /\ UNCHANGED <<_file_system_lock, thread>>
    /\ UNCHANGED notFsVars

\* The loop of clear_cache ends.
ClearCacheEnds(t) ==
    /\ thread[t].pc = "clearing"
    /\ thread' = [thread EXCEPT ![t] = Idle]
    /\ UNCHANGED <<_file_system_lock, cache_dirs>>
    /\ UNCHANGED notFsVars

FsInit ==
    /\ _file_system_lock = "none"
    /\ thread = [t \in Threads |-> Idle]
    /\ cache_dirs = [k \in CacheKeys |-> "absent"]

FsNext ==
    \/ \E t \in Threads, k \in CacheKeys : CacheHit(t, k)
    \/ \E t \in Threads : AcquireAndCopy(t)
    \/ \E t \in Threads : AcquireTimesOut(t)
    \/ \E t \in Threads : CopyEnds(t)
    \/ \E t \in Threads, k \in CacheKeys : CacheRepoBegins(t, k)
    \/ \E t \in Threads, k \in CacheKeys : CleanupRemoves(t, k)
    \/ \E t \in Threads : CacheRepoCopies(t)
    \/ \E t \in Threads : CacheRepoEnds(t)
    \/ \E t \in Threads : ClearCacheBegins(t)
    \/ \E t \in Threads, k \in CacheKeys : ClearCacheRemoves(t, k)
    \/ \E t \in Threads : ClearCacheEnds(t)

(***************************************************************************)
(* main.  One action per statement of the workflow: each function main     *)
(* calls returns, raises an exception, is interrupted (KeyboardInterrupt)  *)
(* or ends the process through sys.exit (SystemExit, which neither except  *)
(* clause of main names).                                                  *)
(***************************************************************************)

\* What run_tests can return: the exit status of the test run.
TestExitCodes == {0, 1, 2}

\* str(exc) of the exceptions the functions called by main raise.
ExceptionTexts ==
    { "Network connection failed: Could not resolve host: github.com",
      "Remote repository not found",
      "Failed to acquire Docker lock for bitcoin-tests-runner" }

NoConfig == [dry_run |-> FALSE, keep_containers |-> FALSE]

\* The label of the `except Exception` clause of main for str(exc) = m.
ErrorLabel(m) ==
    IF Contains(lower(m), "network") \/ Contains(lower(m), "connection")
    THEN "NETWORK ERROR"
    ELSE IF Contains(lower(m), "repository") \/ Contains(lower(m), "not found")
    THEN "REPO ERROR"
    ELSE "ERROR"

\* How a call made inside the try block of main can end other than by
\* returning.
Failures ==
    { [kind |-> "SystemExit", text |-> ""],
      [kind |-> "KeyboardInterrupt", text |-> ""] }
        \cup { [kind |-> "Exception", text |-> m] : m \in ExceptionTexts }

\* A call of fn inside the try block ends by the failure f: SystemExit(1)
\* leaves main through both except clauses, the others enter theirs.
FailsInTry(fn, f) ==
    /\ steps' = Append(steps, <<fn, f.kind>>)
    /\ caught' = f.text
    /\ IF f.kind = "SystemExit"
       THEN main_pc' = "exited" /\ exit_code' = 1
       ELSE main_pc' = f.kind /\ exit_code' = exit_code
    /\ UNCHANGED <<config, label, tests_exit>>

\* cleanup_containers() followed by sys.exit(code) in an except clause: the
\* call returns, or ends the process itself (sys.exit(1) of run_command, or
\* an exception nothing catches).
CleanupThenExit(code) ==
    \E how \in {"returned", "SystemExit", "Exception"} :
        /\ steps' = Append(steps, <<"cleanup_containers", how>>)
        /\ exit_code' = IF how = "returned" THEN code ELSE 1
        /\ main_pc' = "exited"

\* parse_arguments, load_config and the dry-run exit.
LoadConfig ==
    /\ main_pc = "start"
    /\ \/ /\ main_pc' = "exited"          \* ValueError: sys.exit(1)
          /\ exit_code' = 1
          /\ UNCHANGED config
       \/ \E d \in BOOLEAN, k \in BOOLEAN :
             /\ config' = [dry_run |-> d, keep_containers |-> k]
             /\ IF d THEN main_pc' = "exited" /\ exit_code' = 0
                     ELSE main_pc' = "check_prerequisites" /\ UNCHANGED exit_code
    /\ UNCHANGED <<steps, caught, label, tests_exit>>
    /\ UNCHANGED notMainVars

CheckPrerequisites ==
    /\ main_pc = "check_prerequisites"
    /\ \/ /\ steps' = Append(steps, <<"check_prerequisites", "returned">>)
          /\ main_pc' = "build_docker_image"
          /\ UNCHANGED <<config, caught, label, tests_exit, exit_code>>
       \/ \E f \in Failures : FailsInTry("check_prerequisites", f)
    /\ UNCHANGED notMainVars

BuildDockerImage ==
    /\ main_pc = "build_docker_image"
    /\ \/ /\ steps' = Append(steps, <<"build_docker_image", "returned">>)
          /\ main_pc' = "run_tests"
          /\ UNCHANGED <<config, caught, label, tests_exit, exit_code>>
       \/ \E f \in Failures : FailsInTry("build_docker_image", f)
    /\ UNCHANGED notMainVars

RunTests ==
    /\ main_pc = "run_tests"
    /\ \/ \E rc \in TestExitCodes :
             /\ steps' = Append(steps, <<"run_tests", "returned">>)
             /\ tests_exit' = rc
             /\ main_pc' = "cleanup"
             /\ UNCHANGED <<config, caught, label, exit_code>>
       \/ \E f \in Failures : FailsInTry("run_tests", f)
    /\ UNCHANGED notMainVars

\* `if not config.docker.keep_containers: cleanup_containers()`.
Cleanup ==
    /\ main_pc = "cleanup"
    /\ IF config.keep_containers
       THEN /\ main_pc' = "sys.exit"
            /\ UNCHANGED <<config, steps, caught, label, tests_exit, exit_code>>
       ELSE \/ /\ steps' = Append(steps, <<"cleanup_containers", "returned">>)
               /\ main_pc' = "sys.exit"
               /\ UNCHANGED <<config, caught, label, tests_exit, exit_code>>
            \/ \E f \in Failures : FailsInTry("cleanup_containers", f)
    /\ UNCHANGED notMainVars

\* sys.exit(exit_code) at the end of the try block.
ExitWithTestsCode ==
    /\ main_pc = "sys.exit"
    /\ main_pc' = "exited"
    /\ exit_code' = tests_exit
    /\ UNCHANGED <<config, steps, caught, label, tests_exit>>
    /\ UNCHANGED notMainVars

\* except KeyboardInterrupt: cleanup_containers(); sys.exit(130)
OnKeyboardInterrupt ==
    /\ main_pc = "KeyboardInterrupt"
    /\ CleanupThenExit(130)
    /\ UNCHANGED <<config, caught, label, tests_exit>>
    /\ UNCHANGED notMainVars

\* except Exception as exc: the label, cleanup_containers(); sys.exit(1)
OnException ==
    /\ main_pc = "Exception"
    /\ label' = ErrorLabel(caught)
    /\ CleanupThenExit(1)
    /\ UNCHANGED <<config, caught, tests_exit>>
    /\ UNCHANGED notMainVars

MainInit ==
    /\ main_pc = "start"
    /\ config = NoConfig
    /\ steps = <<>>
    /\ caught = ""
    /\ label = ""
    /\ tests_exit = -1
    /\ exit_code = -1

MainNext ==
    \/ LoadConfig
    \/ CheckPrerequisites
    \/ BuildDockerImage
    \/ RunTests
    \/ Cleanup
    \/ ExitWithTestsCode
    \/ OnKeyboardInterrupt
    \/ OnException

(***************************************************************************)
(* load_config: the settings test_suite, repository.branch,                *)
(* build.parallel_jobs and docker.keep_containers, from the command line,  *)
(* the environment and the .env file.  An optional value (None or a value) *)
(* is a set of at most one element.                                        *)
(***************************************************************************)

\* The value of an optional that is not None.
Elem(S) == CHOOSE x \in S : TRUE

\* The flags given: --test-suite, --branch, --build-jobs, --keep-containers.
Argvs ==
    [test_suite : {{}, {"cpp"}, {"both"}},
     branch : {{}, {"dev"}},
     build_jobs : {{}, {0}, {2}},
     keep_containers : BOOLEAN]

\* os.environ when the process starts.
Environs ==
    [BTC_TEST_SUITE : {{}, {"python"}},
     BTC_REPO_BRANCH : {{}, {"envbr"}},
     BTC_BUILD_JOBS : {{}, {"3"}, {"x"}},
     BTC_KEEP_CONTAINERS : {{}, {"true"}, {"maybe"}}]

\* The assignments of the .env file (none when there is no file).
EnvFiles ==
    [BTC_TEST_SUITE : {{}, {"cpp"}},
     BTC_REPO_BRANCH : {{}, {"filebr"}},
     BTC_BUILD_JOBS : {{}},
     BTC_KEEP_CONTAINERS : {{}, {"yes"}}]

NoArgv ==
    [test_suite |-> {}, branch |-> {}, build_jobs |-> {},
     keep_containers |-> FALSE]

NoEnv ==
    [BTC_TEST_SUITE |-> {}, BTC_REPO_BRANCH |-> {}, BTC_BUILD_JOBS |-> {},
     BTC_KEEP_CONTAINERS |-> {}]

\* AppConfig(): the defaults of the dataclasses.
AppConfig ==
    [test_suite |-> "both", branch |-> "master", parallel_jobs |-> {},
     keep_containers |-> FALSE]

Digits == <<"0", "1", "2", "3", "4", "5", "6", "7", "8", "9">>

IsDigits(s) ==
    /\ Len(s) > 0
    /\ \A i \in 1..Len(s) : \E d \in DOMAIN Digits : SubSeq(s, i, i) = Digits[d]

RECURSIVE DigitsValue(_)
DigitsValue(s) ==
    IF Len(s) = 0 THEN 0
    ELSE 10 * DigitsValue(SubSeq(s, 1, Len(s) - 1))
           + (CHOOSE d \in DOMAIN Digits :
                 SubSeq(s, Len(s), Len(s)) = Digits[d]) - 1

\* int(value): blanks stripped, an optional sign, decimal digits; {} stands
\* for ValueError.
int(value) ==
    LET v == strip(value)
        signed == Len(v) > 0 /\ SubSeq(v, 1, 1) \in {"+", "-"}
        body == IF signed THEN SubSeq(v, 2, Len(v)) ELSE v
    IN  IF ~IsDigits(body) THEN {}
        ELSE IF signed /\ SubSeq(v, 1, 1) = "-" THEN {0 - DigitsValue(body)}
        ELSE {DigitsValue(body)}

\* ConfigManager._get_env_var(name, default, var_type) on the environment env.
_get_env_var(env, name, default, var_type) ==
    IF env[name] = {} THEN default
    ELSE LET value == Elem(env[name])
         IN  CASE var_type = "bool" ->
                    IF lower(value) \in {"true", "1", "yes", "on"} THEN TRUE
                    ELSE IF lower(value) \in {"false", "0", "no", "off"} THEN FALSE
                    ELSE default
               [] var_type = "int" ->
                    IF int(value) = {} THEN default ELSE int(value)
               [] OTHER -> value

\* load_dotenv(env_path): override is False, a variable already in the
\* environment keeps its value.
load_dotenv(env, file) ==
    [n \in DOMAIN env |-> IF env[n] # {} THEN env[n] ELSE file[n]]

\* ConfigManager.load_from_env_vars
load_from_env_vars(c, env) ==
    [test_suite |-> _get_env_var(env, "BTC_TEST_SUITE", c.test_suite, "str"),
     branch |-> _get_env_var(env, "BTC_REPO_BRANCH", c.branch, "str"),
     parallel_jobs |->
         _get_env_var(env, "BTC_BUILD_JOBS", c.parallel_jobs, "int"),
     keep_containers |->
         _get_env_var(env, "BTC_KEEP_CONTAINERS", c.keep_containers, "bool")]

\* parser.parse_args(): the Namespace.  --test-suite has default="both";
\* the other options are None (False for store_true) when not given.
parse_arguments(a) ==
    [test_suite |-> IF a.test_suite = {} THEN {"both"} ELSE a.test_suite,
     branch |-> a.branch,
     build_jobs |-> a.build_jobs,
     keep_containers |-> a.keep_containers]

\* The truth value Python gives an optional string, an optional integer.
TruthyStr(v) == v # {} /\ Elem(v) # ""

TruthyInt(v) == v # {} /\ Elem(v) # 0

\* ConfigManager.update_from_cli_args
update_from_cli_args(c, args) ==
    [test_suite |-> IF TruthyStr(args.test_suite)
                    THEN Elem(args.test_suite) ELSE c.test_suite,
     branch |-> IF TruthyStr(args.branch) THEN Elem(args.branch) ELSE c.branch,
     parallel_jobs |-> IF TruthyInt(args.build_jobs)
                       THEN args.build_jobs ELSE c.parallel_jobs,
     keep_containers |-> IF args.keep_containers
                         THEN args.keep_containers ELSE c.keep_containers]

\* ConfigManager.validate_config: the errors about these settings.
validate_config(c) ==
    (IF c.parallel_jobs # {} /\ Elem(c.parallel_jobs) < 1
     THEN {"Parallel build jobs must be >= 1"} ELSE {})
        \cup (IF c.test_suite \notin {"cpp", "python", "both"}
              THEN {"Invalid test suite"} ELSE {})

\* load_config(args): [environ, config, errors].
load_config(a, env, file) ==
    LET env1 == load_dotenv(env, file)
        c1   == load_from_env_vars(AppConfig, env1)
        c2   == update_from_cli_args(c1, parse_arguments(a))
    IN  [environ |-> env1, config |-> c2, errors |-> validate_config(c2)]

ConfigInit ==
    /\ load_pc = "not started"
    /\ argv = NoArgv
    /\ environ = NoEnv
    /\ env_file = NoEnv
    /\ app_config = AppConfig

\* The process starts: its command line, its environment, its .env file.
ProcessStarts ==
    /\ load_pc = "not started"
    /\ argv' \in Argvs
    /\ environ' \in Environs
    /\ env_file' \in EnvFiles
    /\ load_pc' = "start"
    /\ UNCHANGED app_config
    /\ UNCHANGED notConfigVars

CallLoadConfig ==
    /\ load_pc = "start"
    /\ LET r == load_config(argv, environ, env_file)
       IN  /\ environ' = r.environ
           /\ app_config' = r.config
           /\ load_pc' = IF r.errors = {} THEN "returned" ELSE "ValueError"
    /\ UNCHANGED <<argv, env_file>>
    /\ UNCHANGED notConfigVars

ConfigNext == ProcessStarts \/ CallLoadConfig

(***************************************************************************)
(* docker_container_lock.  One action per way a thread can pass through    *)
(* the context manager: entering the body, timing out on the lock, leaving *)
(* the body.  _docker_lock is a threading.RLock: the thread holding it     *)
(* acquires it again at once.                                              *)
(***************************************************************************)

\* How deep one thread nests docker_container_lock contexts.
MaxNesting == 2

\* The container_name arguments; "" stands for None.
ContainerNames == {"", "bitcoin-tests-build", "bitcoin-tests-runner"}

Unlocked == [owner |-> "none", count |-> 0]

\* acquire succeeding whoever holds the lock.
acquireAnyOwner(lock, t) ==
    [ok |-> TRUE, lock |-> [owner |-> t, count |-> lock.count + 1]]

\* RLock.acquire(timeout=30.0) by thread t: [ok, lock].  ok is False when
\* another thread holds the lock for the whole timeout.
acquire(lock, t) ==
    IF lock.owner \in {"none", t}
    THEN [ok |-> TRUE, lock |-> [owner |-> t, count |-> lock.count + 1]]
    ELSE [ok |-> FALSE, lock |-> lock]

\* RLock.release() by its owner.
release(lock) ==
    IF lock.count = 1 THEN Unlocked
    ELSE [lock EXCEPT !.count = lock.count - 1]

NoContext == [stack |-> <<>>, last |-> "none"]

\* The lock is acquired, the container registered, the body entered.
EnterContext(t, name) ==
    /\ Len(contexts[t].stack) < MaxNesting
    /\ LET r == acquire(_docker_lock, t)
       IN  /\ r.ok
           /\ _docker_lock' = r.lock
    /\ _active_containers' =
          IF name # "" THEN _active_containers \cup {name}
          ELSE _active_containers
    /\ contexts' = [contexts EXCEPT
                       ![t] = [stack |-> Append(contexts[t].stack, name),
                               last |-> "entered"]]
    /\ UNCHANGED notDockerVars

\* acquire returned False: TimeoutError, raised before the try block.
ContextTimesOut(t, name) ==
    /\ Len(contexts[t].stack) < MaxNesting
    /\ ~acquire(_docker_lock, t).ok
    /\ contexts' = [contexts EXCEPT ![t].last = "TimeoutError"]
    /\ UNCHANGED <<_docker_lock, _active_containers>>
    /\ UNCHANGED notDockerVars

\* The body ends, by returning or by an exception: the finally clause
\* discards the container and releases the lock.
LeaveContext(t, how) ==
    /\ contexts[t].stack # <<>>
    /\ LET n    == Len(contexts[t].stack)
           name == contexts[t].stack[n]
       IN  /\ _active_containers' =
                 IF name # "" THEN _active_containers \ {name}
                 ELSE _active_containers
           /\ contexts' = [contexts EXCEPT
                              ![t] = [stack |-> SubSeq(contexts[t].stack, 1, n - 1),
                                      last |-> how]]
    /\ _docker_lock' = release(_docker_lock)
    /\ UNCHANGED notDockerVars

DockerInit ==
    /\ _docker_lock = Unlocked
    /\ _active_containers = {}
    /\ contexts = [t \in Threads |-> NoContext]

DockerNext ==
    \/ \E t \in Threads, name \in ContainerNames : EnterContext(t, name)
    \/ \E t \in Threads, name \in ContainerNames : ContextTimesOut(t, name)
    \/ \E t \in Threads, how \in {"returned", "raised"} : LeaveContext(t, how)

(***************************************************************************)
(* emergency_cleanup, as the one thread running it sees it: resources are  *)
(* tracked, then the call goes through the containers (under              *)
(* _docker_lock), the temporary directories (under _temp_dir_lock) and the *)
(* handlers, one action per item and one per end of loop.                  *)
(***************************************************************************)

\* How many handlers are registered.
MaxHandlers == 2

TempDirs == {"/tmp/bitcoin_tests_a"}

Handlers == {"h1", "h2"}

\* The thread running emergency_cleanup.
CleanupThread == "t1"

\* What cleaning one item can do: succeed, raise an Exception, or raise an
\* exception outside Exception (SystemExit, KeyboardInterrupt).
ItemOutcomes == {"ok", "Exception", "BaseException"}

NoCleanup ==
    [pc |-> "idle", todo |-> {}, queue |-> <<>>,
     start |-> [containers |-> {}, temp_dirs |-> {}, handlers |-> <<>>],
     containers |-> <<>>, temp_dirs |-> <<>>, handlers |-> <<>>,
     outcomes |-> <<>>]

\* AfterItem stopping the loop on an Exception as well.
AfterItemStopOnException(outcome) ==
    IF outcome = "ok" THEN "continue" ELSE "raise"

\* `try: ... except Exception as exc: logger.error(...)` around one item:
\* whether the loop goes on or emergency_cleanup raises.
AfterItem(outcome) ==
    IF outcome \in {"ok", "Exception"} THEN "continue" ELSE "raise"

\* docker_container_lock registered a container (the thread is inside its
\* body, or the set was filled directly).
TrackContainer(name) ==
    /\ cleanup.pc = "idle"
    /\ name # ""
    /\ name \notin _active_containers
    /\ _active_containers' = _active_containers \cup {name}
    /\ UNCHANGED <<_docker_lock, cleanupVars>>
    /\ UNCHANGED notCleanupVars

\* thread_safe_temp_dir registered its directory.
TrackTempDir(d) ==
    /\ cleanup.pc = "idle"
    /\ d \notin _temp_directories
    /\ _temp_directories' = _temp_directories \cup {d}
    /\ UNCHANGED <<_docker_lock, _active_containers, _cleanup_handlers, cleanup>>
    /\ UNCHANGED notCleanupVars

\* register_cleanup_handler(handler)
RegisterCleanupHandler(h) ==
    /\ cleanup.pc = "idle"
    /\ Len(_cleanup_handlers) < MaxHandlers
    /\ _cleanup_handlers' = Append(_cleanup_handlers, h)
    /\ UNCHANGED <<_docker_lock, _active_containers, _temp_directories, cleanup>>
    /\ UNCHANGED notCleanupVars

\* emergency_cleanup() is called: `with _docker_lock:` and the copy of the
\* set of containers.
CallEmergencyCleanup ==
    /\ cleanup.pc = "idle"
    /\ LET r == acquire(_docker_lock, CleanupThread)
       IN  /\ r.ok
           /\ _docker_lock' = r.lock
    /\ cleanup' = [cleanup EXCEPT
                      !.pc = "containers",
                      !.todo = _active_containers,
                      !.start = [containers |-> _active_containers,
                                 temp_dirs |-> _temp_directories,
                                 handlers |-> _cleanup_handlers]]
    /\ UNCHANGED <<_active_containers, _temp_directories, _cleanup_handlers>>
    /\ UNCHANGED notCleanupVars

\* One iteration of the loop over the containers.
RemoveContainer ==
    /\ cleanup.pc = "containers"
    /\ \E c \in cleanup.todo, o \in ItemOutcomes :
          /\ cleanup' = [cleanup EXCEPT
                            !.todo = cleanup.todo \ {c},
                            !.containers = Append(cleanup.containers, c),
                            !.outcomes = Append(cleanup.outcomes, o),
                            !.pc = IF AfterItem(o) = "continue"
                                   THEN "containers" ELSE "raised"]
          /\ _docker_lock' = IF AfterItem(o) = "continue" THEN _docker_lock
                             ELSE release(_docker_lock)
    /\ UNCHANGED <<_active_containers, _temp_directories, _cleanup_handlers>>
    /\ UNCHANGED notCleanupVars

\* _active_containers.clear(), the end of `with _docker_lock:`, and the copy
\* of the set of temporary directories.
ContainersDone ==
    /\ cleanup.pc = "containers"
    /\ cleanup.todo = {}
    /\ _active_containers' = {}
    /\ _docker_lock' = release(_docker_lock)
    /\ cleanup' = [cleanup EXCEPT !.pc = "temp dirs",
                                  !.todo = _temp_directories]
    /\ UNCHANGED <<_temp_directories, _cleanup_handlers>>
    /\ UNCHANGED notCleanupVars

\* One iteration of the loop over the temporary directories.
RemoveTempDir ==
    /\ cleanup.pc = "temp dirs"
    /\ \E d \in cleanup.todo, o \in ItemOutcomes :
          cleanup' = [cleanup EXCEPT
                         !.todo = cleanup.todo \ {d},
                         !.temp_dirs = Append(cleanup.temp_dirs, d),
                         !.outcomes = Append(cleanup.outcomes, o),
                         !.pc = IF AfterItem(o) = "continue"
                                THEN "temp dirs" ELSE "raised"]
    /\ UNCHANGED <<_docker_lock, _active_containers, _temp_directories,
                   _cleanup_handlers>>
    /\ UNCHANGED notCleanupVars

\* _temp_directories.clear() and the copy of the list of handlers.
TempDirsDone ==
    /\ cleanup.pc = "temp dirs"
    /\ cleanup.todo = {}
    /\ _temp_directories' = {}
    /\ cleanup' = [cleanup EXCEPT !.pc = "handlers",
                                  !.queue = _cleanup_handlers]
    /\ UNCHANGED <<_docker_lock, _active_containers, _cleanup_handlers>>
    /\ UNCHANGED notCleanupVars

\* One iteration of the loop over the handlers.
RunHandler ==
    /\ cleanup.pc = "handlers"
    /\ cleanup.queue # <<>>
    /\ \E o \in ItemOutcomes :
          cleanup' = [cleanup EXCEPT
                         !.queue = Tail(cleanup.queue),
                         !.handlers = Append(cleanup.handlers,
                                             Head(cleanup.queue)),
                         !.outcomes = Append(cleanup.outcomes, o),
                         !.pc = IF AfterItem(o) = "continue"
                                THEN "handlers" ELSE "raised"]
    /\ UNCHANGED <<_docker_lock, _active_containers, _temp_directories,
                   _cleanup_handlers>>
    /\ UNCHANGED notCleanupVars

\* _cleanup_handlers.clear(); emergency_cleanup returns.
HandlersDone ==
    /\ cleanup.pc = "handlers"
    /\ cleanup.queue = <<>>
    /\ _cleanup_handlers' = <<>>
    /\ cleanup' = [cleanup EXCEPT !.pc = "returned"]
    /\ UNCHANGED <<_docker_lock, _active_containers, _temp_directories>>
    /\ UNCHANGED notCleanupVars

\* register_cleanup_handler(handler) by another thread while
\* emergency_cleanup runs: it takes _cleanup_handler_lock, which
\* emergency_cleanup never takes.
RegisterWhileCleaning(h) ==
    /\ cleanup.pc \in {"containers", "temp dirs", "handlers"}
    /\ Len(_cleanup_handlers) < MaxHandlers
    /\ _cleanup_handlers' = Append(_cleanup_handlers, h)
    /\ UNCHANGED <<_docker_lock, _active_containers, _temp_directories, cleanup>>
    /\ UNCHANGED notCleanupVars

CleanupInit ==
    /\ _temp_directories = {}
    /\ _cleanup_handlers = <<>>
    /\ cleanup = NoCleanup

CleanupNext ==
    \/ \E name \in ContainerNames : TrackContainer(name)
    \/ \E d \in TempDirs : TrackTempDir(d)
    \/ \E h \in Handlers : RegisterCleanupHandler(h)
    \/ CallEmergencyCleanup
    \/ RemoveContainer
    \/ ContainersDone
    \/ RemoveTempDir
    \/ TempDirsDone
    \/ RunHandler
    \/ HandlersDone

(***************************************************************************)
(* Threads calling clone_bitcoin_repo_enhanced for one target_dir, on the  *)
(* path without a cache hit: the existence check under file_system_lock,   *)
(* then the git clone.  One action per step between two points where       *)
(* another thread can run.                                                 *)
(***************************************************************************)

NotCloning == [pc |-> "idle", created |-> FALSE]

\* clone_bitcoin_repo_enhanced is called; the cache is disabled or misses,
\* and the thread reaches `with file_system_lock(...)`.
CallCloneOnMiss(t) ==
    /\ cloner[t].pc \in {"idle", "returned", "raised"}
    /\ cloner' = [cloner EXCEPT ![t] = [pc |-> "acquire", created |-> FALSE]]
    /\ UNCHANGED <<_file_system_lock, target_state>>
    /\ UNCHANGED notRaceVars

\* _file_system_lock.acquire(timeout=30.0) returns True.
AcquireForCheck(t) ==
    /\ cloner[t].pc = "acquire"
    /\ _file_system_lock = "none"
    /\ _file_system_lock' = t
    /\ cloner' = [cloner EXCEPT ![t].pc = "check"]
    /\ UNCHANGED target_state
    /\ UNCHANGED notRaceVars

\* acquire returns False: file_system_lock raises TimeoutError.
CheckLockTimesOut(t) ==
    /\ cloner[t].pc = "acquire"
    /\ _file_system_lock \notin {"none", t}
    /\ cloner' = [cloner EXCEPT ![t].pc = "raised"]
    /\ UNCHANGED <<_file_system_lock, target_state>>
    /\ UNCHANGED notRaceVars

\* `if target_path.exists(): return`, and the end of the with block: the
\* lock is released.
CheckExisting(t) ==
    /\ cloner[t].pc = "check"
    /\ _file_system_lock' = "none"
    /\ cloner' = [cloner EXCEPT ![t].pc = IF target_state # "absent"
                                          THEN "returned" ELSE "clone"]
    /\ UNCHANGED target_state
    /\ UNCHANGED notRaceVars

\* run_git_command_with_retry(["git", "clone", ...]) starts: git creates
\* target_dir, or finds it in place.
GitCloneStarts(t) ==
    /\ cloner[t].pc = "clone"
    /\ cloner' = [cloner EXCEPT ![t] = [pc |-> "cloning",
                                        created |-> target_state = "absent"]]
    /\ target_state' = IF target_state = "absent" THEN "partial"
                       ELSE target_state
    /\ UNCHANGED _file_system_lock
    /\ UNCHANGED notRaceVars

\* The git clone ends.  In a directory it created it succeeds, or fails and
\* removes the directory; in a directory that was in place it fails
\* ("destination path already exists") and the call raises.
GitCloneEnds(t) ==
    /\ cloner[t].pc = "cloning"
    /\ \/ /\ cloner[t].created
          /\ \/ /\ target_state' = "present"
                /\ cloner' = [cloner EXCEPT ![t].pc = "returned"]
             \/ /\ target_state' = "absent"
                /\ cloner' = [cloner EXCEPT ![t].pc = "raised"]
       \/ /\ ~cloner[t].created
          /\ target_state' = target_state
          /\ cloner' = [cloner EXCEPT ![t].pc = "raised"]
    /\ UNCHANGED _file_system_lock
    /\ UNCHANGED notRaceVars

RaceInit ==
    /\ cloner = [t \in Threads |-> NotCloning]
    /\ target_state = "absent"

RaceNext ==
    \/ \E t \in Threads : CallCloneOnMiss(t)
    \/ \E t \in Threads : AcquireForCheck(t)
    \/ \E t \in Threads : CheckLockTimesOut(t)
    \/ \E t \in Threads : CheckExisting(t)
    \/ \E t \in Threads : GitCloneStarts(t)
    \/ \E t \in Threads : GitCloneEnds(t)

(***************************************************************************)
(* PerformanceMonitor: start_monitoring and stop_monitoring called by the  *)
(* threads of the process, and the sampling threads running _monitor_loop. *)
(* One action per statement; the metrics are left out.                     *)
(***************************************************************************)

\* How many sampling threads the callers start.
MaxSamplers == 3

\* The sampling threads: two callers can each start one more than the bound.
SamplerIds == 1..(MaxSamplers + 1)

\* start_monitoring is called: `if self._monitoring: return`.
StartMonitoringTests(t) ==
    /\ caller[t] = "idle"
    /\ spawned < MaxSamplers
    /\ caller' = [caller EXCEPT ![t] = IF _monitoring THEN "idle" ELSE "set True"]
    /\ UNCHANGED <<_monitoring, _thread, live, spawned>>
    /\ UNCHANGED notMonitorVars

\* self._monitoring = True
StartMonitoringSets(t) ==
    /\ caller[t] = "set True"
    /\ _monitoring' = TRUE
    /\ caller' = [caller EXCEPT ![t] = "start thread"]
    /\ UNCHANGED <<_thread, live, spawned>>
    /\ UNCHANGED notMonitorVars

\* self._thread = threading.Thread(target=self._monitor_loop, daemon=True)
\* self._thread.start()
StartMonitoringStartsThread(t) ==
    /\ caller[t] = "start thread"
    /\ spawned' = spawned + 1
    /\ _thread' = spawned + 1
    /\ live' = live \cup {spawned + 1}
    /\ caller' = [caller EXCEPT ![t] = "idle"]
    /\ UNCHANGED _monitoring
    /\ UNCHANGED notMonitorVars

\* stop_monitoring is called: `if not self._monitoring: return ...`.
StopMonitoringTests(t) ==
    /\ caller[t] = "idle"
    /\ _monitoring
    /\ caller' = [caller EXCEPT ![t] = "set False"]
    /\ UNCHANGED <<_monitoring, _thread, live, spawned>>
    /\ UNCHANGED notMonitorVars

\* self._monitoring = False
StopMonitoringSets(t) ==
    /\ caller[t] = "set False"
    /\ _monitoring' = FALSE
    /\ caller' = [caller EXCEPT ![t] = "join"]
    /\ UNCHANGED <<_thread, live, spawned>>
    /\ UNCHANGED notMonitorVars

\* `if self._thread: self._thread.join(timeout=2.0)`: the join returns when
\* the thread has ended, or after two seconds with the thread still in
\* time.sleep(self.interval) or in _collect_metrics.
StopMonitoringJoins(t) ==
    /\ caller[t] = "join"
    /\ caller' = [caller EXCEPT ![t] = IF _thread \in live THEN "join timed out"
                                       ELSE "idle"]
    /\ UNCHANGED <<_monitoring, _thread, live, spawned>>
    /\ UNCHANGED notMonitorVars

\* stop_monitoring returns the metrics after a join that timed out.
StopMonitoringReturns(t) ==
    /\ caller[t] = "join timed out"
    /\ caller' = [caller EXCEPT ![t] = "idle"]
    /\ UNCHANGED <<_monitoring, _thread, live, spawned>>
    /\ UNCHANGED notMonitorVars

\* _monitor_loop: `while self._monitoring:` is False, the thread ends.
MonitorLoopEnds(s) ==
    /\ s \in live
    /\ ~_monitoring
    /\ live' = live \ {s}
    /\ UNCHANGED <<_monitoring, _thread, spawned, caller>>
    /\ UNCHANGED notMonitorVars

\* emergency_cleanup with the other threads of the process registering
\* handlers.
HandlersNext ==
    \/ CleanupNext
    \/ \E h \in Handlers : RegisterWhileCleaning(h)

MonitorInit ==
    /\ _monitoring = FALSE
    /\ _thread = 0
    /\ live = {}
    /\ spawned = 0
    /\ caller = [t \in Threads |-> "idle"]

MonitorNext ==
    \/ \E t \in Threads : StartMonitoringTests(t)
    \/ \E t \in Threads : StartMonitoringSets(t)
    \/ \E t \in Threads : StartMonitoringStartsThread(t)
    \/ \E t \in Threads : StopMonitoringTests(t)
    \/ \E t \in Threads : StopMonitoringSets(t)
    \/ \E t \in Threads : StopMonitoringJoins(t)
    \/ \E t \in Threads : StopMonitoringReturns(t)
    \/ \E s \in SamplerIds : MonitorLoopEnds(s)

RetryNext == CallRunGit \/ Attempt \/ AfterLoop

Init == RetryInit /\ CacheInit /\ CloneInit /\ FsInit /\ MainInit /\ ConfigInit
        /\ DockerInit /\ CleanupInit /\ RaceInit
        /\ MonitorInit

SpecRetry == Init /\ [][RetryNext]_vars

SpecCache == Init /\ [][CacheNext]_vars

SpecClone == Init /\ [][CloneNext]_vars

SpecFs == Init /\ [][FsNext]_vars

SpecMain == Init /\ [][MainNext]_vars

SpecConfig == Init /\ [][ConfigNext]_vars

SpecDocker == Init /\ [][DockerNext]_vars

SpecCleanup == Init /\ [][CleanupNext]_vars

SpecHandlers == Init /\ [][HandlersNext]_vars

SpecRace == Init /\ [][RaceNext]_vars

SpecMonitor == Init /\ [][MonitorNext]_vars

(***************************************************************************)
(* Properties of run_git_command_with_retry and of the classifier.         *)
(***************************************************************************)

Retryable == {"NetworkConnectionError", "RuntimeError", "TimeoutExpired"}

\* The categories whose keyword predicate matches a text.
MatchedBy(msg) ==
    { c \in {"SSLError", "DiskSpaceError", "RepositoryError",
             "AuthenticationError", "NetworkConnectionError"} :
        CASE c = "SSLError"               -> _is_ssl_error(msg)
          [] c = "DiskSpaceError"         -> _is_disk_space_error(msg)
          [] c = "RepositoryError"        -> _is_repository_error(msg)
          [] c = "AuthenticationError"    -> _is_authentication_error(msg)
          [] c = "NetworkConnectionError" -> _is_network_error(msg) }

\* The function on S, as an explicit table (@@ yields the enumerated
\* function).
MatchTableOn(S) == [m \in S |-> MatchedBy(m)] @@ <<>>

MatchTable == MatchTableOn(ErrorMsgs)

\* The order the categories are to be tried in.
Precedence ==
    << "SSLError", "DiskSpaceError", "RepositoryError", "AuthenticationError",
       "NetworkConnectionError" >>

\* The first category, in Precedence, among those matching; Generic otherwise.
FirstMatching(msg) ==
    IF MatchTable[msg] = {} THEN "RuntimeError"
    ELSE Precedence[CHOOSE i \in DOMAIN Precedence :
                        /\ Precedence[i] \in MatchTable[msg]
                        /\ \A k \in 1..(i - 1) : Precedence[k] \notin MatchTable[msg]]

\* C1: an attempt that exits non-zero with a text classified SSL, DiskSpace,
\* Repository or Authentication is the last execution of the command: the
\* call has raised that typed error, and no sleep and no further attempt
\* follows it, whatever max_retries >= 1 is.
C1_PermanentFailsAtOnce ==
    \A i \in DOMAIN hist :
        hist[i] \in PermanentErrors =>
            /\ i = Len(hist)
            /\ rpc = "raised"
            /\ raised = hist[i]
            /\ Len(slept) = i - 1

\* C2: when attempts 1..k-1 failed with Network or Generic errors and
\* attempt k exits 0 (k <= max_retries), the call has returned the result of
\* attempt k after exactly k executions; nothing runs after a success.
C2_SuccessEndsTheCall ==
    \A k \in DOMAIN hist :
        (/\ hist[k] = "Success"
         /\ \A i \in 1..(k - 1) :
                hist[i] \in {"NetworkConnectionError", "RuntimeError"})
        => /\ k = Len(hist)
           /\ k <= max_retries
           /\ rpc = "returned"
           /\ result = k
           /\ calls = k
           /\ raised = "none"

C2_Witness ==
    /\ rpc = "returned"
    /\ hist = <<"NetworkConnectionError", "RuntimeError", "Success">>
    /\ max_retries = 3
    /\ result = 3

C4_FirstMatchWins ==
    (/\ rpc = "raised"
     /\ hist # <<>>
     /\ hist[Len(hist)] \notin {"Success", "TimeoutExpired", "OSError"})
    => raised = FirstMatching(error_msg)

C4_Witness ==
    /\ rpc = "raised"
    /\ error_msg = "remote: Repository not found"
    /\ {"RepositoryError", "AuthenticationError"} \subseteq MatchTable[error_msg]
    /\ raised = "RepositoryError"

\* C5 as stated: no error text is matched by two categories.
C5_PredicatesDisjoint ==
    error_msg # "" => Cardinality(MatchTable[error_msg]) <= 1

\* C5, amended: a text that is a single keyword of one of the five lists is
\* matched by one category only, or by Repository and Authentication together
\* (the only two lists that share keywords).
C5_OnlyRepoAndAuthShareKeywords ==
    error_msg \in Keywords =>
        \/ Cardinality(MatchTable[error_msg]) = 1
        \/ MatchTable[error_msg] = {"RepositoryError", "AuthenticationError"}

C5_Witness ==
    /\ error_msg = "remote: access denied"
    /\ MatchTable[error_msg] = {"RepositoryError", "AuthenticationError"}
    /\ hist # <<>>

(***************************************************************************)
(* Properties of GitCache.                                                 *)
(***************************************************************************)

\* The key of the pair the latest operation was called with.
OpKey == _get_repo_hash(op.url, op.branch)

\* What copytree is to leave of a source: its files but the ignored ones.
ExpectedCopy(source_path) ==
    { f \in SourceDir(source_path).files : ~IgnoredPath(f) }

\* C6: cache keys are unique per (repo_url, branch) pair, so a lookup for one
\* pair never returns the tree that was stored for another pair: the entry
\* behind a returned path was recorded for the very pair that was looked up.
C6_KeysUniquePerPair ==
    (op.name = "get_cached_repo" /\ op.ret # "None")
    => /\ OpKey \in DOMAIN metadata
       /\ metadata[OpKey].repo_url = op.url
       /\ metadata[OpKey].branch = op.branch

\* C7 as stated: whenever get_cached_repo returns None for a key that was in
\* the metadata when the call started, the key is in neither the in-memory
\* metadata nor the metadata file when the call returns.
C7_NoneRemovesEntryEverywhere ==
    (op.name = "get_cached_repo" /\ op.ret = "None" /\ op.why # "miss")
    => /\ OpKey \notin DOMAIN metadata
       /\ OpKey \notin DOMAIN meta_file

\* C7, amended: when get_cached_repo finds the directory missing, the .git
\* marker missing, or git show-ref exiting non-zero, it returns None with the
\* key removed from the in-memory metadata, and from the metadata file too
\* when that file could be written; when show-ref times out or git cannot be
\* started it returns None and leaves the entry in place.
C7_NoneRemovesEntryWhenVerified ==
    op.name = "get_cached_repo" =>
        /\ op.why \in {"no directory", "no .git", "no branch ref"} =>
              /\ op.ret = "None"
              /\ OpKey \notin DOMAIN metadata
              /\ op.fault # "save" => OpKey \notin DOMAIN meta_file
        /\ op.why \in {"TimeoutExpired", "FileNotFoundError"} =>
              /\ op.ret = "None"
              /\ OpKey \in DOMAIN metadata

C7_Witness ==
    /\ op.name = "get_cached_repo"
    /\ op.why = "no .git"
    /\ op.ret = "None"
    /\ op.fault = "none"
    /\ OpKey \notin DOMAIN metadata
    /\ OpKey \notin DOMAIN meta_file

\* C8: round trip.  When cache_repo(url, branch, src) has returned True for a
\* source holding the ref of the branch, and get_cached_repo(url, branch) is
\* the next operation and its git show-ref runs to an exit code, the lookup
\* returns the cache path of the key and the directory there holds the files
\* of src but the ignored ones.
C8_RoundTrip ==
    [][ (/\ op.name = "cache_repo"
         /\ op.ret = "True"
         /\ RefFile(op.branch) \in SourceDir(op.source).files
         /\ op'.name = "get_cached_repo"
         /\ op'.url = op.url
         /\ op'.branch = op.branch
         /\ op'.why \notin {"TimeoutExpired", "FileNotFoundError"})
        => /\ op'.ret = OpKey
           /\ disk'[OpKey].exists
           /\ disk'[OpKey].files = ExpectedCopy(op.source) ]_vars

\* C9 as stated: cache_repo ends in True or False, in False whenever a step
\* of it failed (eviction, deleting the old entry, copying, writing the
\* metadata), and in True only with the tree copied and the entry recorded.
C9_AnyFailureReturnsFalse ==
    op.name = "cache_repo" =>
        /\ op.ret \in {"True", "False"}
        /\ op.fault # "none" => op.ret = "False"
        /\ op.ret = "True" =>
              /\ disk[OpKey].exists
              /\ disk[OpKey].files = ExpectedCopy(op.source)
              /\ OpKey \in DOMAIN metadata

\* C9, amended: cache_repo ends in True or False; in False when deleting the
\* old entry or copying the tree failed; in True only with the tree copied
\* and the entry for the key recorded in the in-memory metadata.  A failure
\* inside the eviction or of the write of the metadata file is logged and
\* does not keep the call from returning True.
C9_FalseOnDeleteOrCopyFailure ==
    op.name = "cache_repo" =>
        /\ op.ret \in {"True", "False"}
        /\ op.fault \in {"rmtree", "copytree all", "copytree worktree",
                         "no source"} => op.ret = "False"
        /\ op.ret = "True" =>
              /\ disk[OpKey].exists
              /\ disk[OpKey].files = ExpectedCopy(op.source)
              /\ OpKey \in DOMAIN metadata
              /\ metadata[OpKey] = Entry(op.url, op.branch, clock, op.source)
        /\ op.fault \in {"save", "cleanup save", "cleanup rmtree",
                         "cleanup iterdir", "cleanup scan"} => op.ret = "True"

C9_Witness ==
    /\ op.name = "cache_repo"
    /\ op.ret = "True"
    /\ op.fault = "save"
    /\ OpKey \in DOMAIN metadata
    /\ OpKey \notin DOMAIN meta_file

RemovedDirs == ExistingDirs(disk) \ ExistingDirs(disk')

\* C11: a run of the eviction in which nothing fails removes entries oldest
\* cached_at first: no removed entry was cached later than an entry that is
\* kept; it removes no more than needed to come down to 80% of the cap;
\* every removed entry is gone from the metadata; and it removes nothing
\* when the total does not exceed the cap.
C11_EvictsOldestCachedAtFirst ==
    [][ (op'.name = "_cleanup_old_cache" /\ op'.fault = "none")
        => /\ \A k \in RemovedDirs, j \in ExistingDirs(disk') :
                 (k \in DOMAIN metadata /\ j \in DOMAIN metadata)
                 => metadata[k].cached_at <= metadata[j].cached_at
           /\ RemovedDirs # {} =>
                 \E k \in RemovedDirs :
                    10 * (TotalSize(disk') + DirSize(disk[k])) > 8 * MaxCacheSize
           /\ \A k \in RemovedDirs : k \notin DOMAIN metadata'
           /\ TotalSize(disk) <= MaxCacheSize => RemovedDirs = {} ]_vars

(***************************************************************************)
(* Properties of clone_bitcoin_repo_enhanced.                              *)
(***************************************************************************)

\* The step is a call of clone_bitcoin_repo_enhanced.
CloneStep == call'.seq # 0 /\ call'.seq # call.seq

\* The cache key of the pair the latest call was made with.
CallKey == _get_repo_hash(call.url, call.branch)

TypedErrors ==
    { "NetworkConnectionError", "NetworkTimeoutError", "SSLError",
      "AuthenticationError", "RepositoryError", "DiskSpaceError" }

\* C12 as stated: a call that follows a successful call with the same
\* arguments, use_cache enabled and target_dir in place returns successfully
\* without executing git clone, without a cache lookup and without touching
\* the directory.
C12_SecondCallShortCircuits ==
    [][ (/\ CloneStep
         /\ call.outcome = "returned"
         /\ call.use_cache /\ call'.use_cache
         /\ call'.url = call.url
         /\ call'.branch = call.branch
         /\ call'.target_dir = call.target_dir
         /\ target[call'.target_dir].exists)
        => /\ call'.outcome = "returned"
           /\ call'.clone_calls = 0
           /\ call'.lookup = "not performed"
           /\ target' = target ]_vars

\* C12, amended: with use_cache enabled and target_dir in place, the call
\* performs the cache lookup first.  When the lookup returns None and the
\* file-system lock is acquired, the call returns successfully without
\* executing git (clone or checkout) and without touching the directory.
\* When the lookup hits and the copy and checkout succeed, the directory has
\* been replaced by the cached tree, and git clone is not executed.
C12_ExistingDirShortCircuitsOnMiss ==
    [][ (CloneStep /\ call'.use_cache /\ target[call'.target_dir].exists)
        => /\ call'.existed
           /\ call'.lookup # "not performed"
           /\ (call'.hit = "none" /\ call'.outcome # "TimeoutError") =>
                 /\ call'.outcome = "returned"
                 /\ call'.clone_calls = 0
                 /\ call'.checkout_calls = 0
                 /\ target' = target
           /\ call'.hit = "copied" =>
                 /\ call'.outcome = "returned"
                 /\ call'.clone_calls = 0
                 /\ call'.checkout_calls >= 1
                 /\ target'[call'.target_dir].files
                       = disk[_get_repo_hash(call'.url, call'.branch)].files ]_vars

C12_Witness ==
    /\ call.existed
    /\ call.use_cache
    /\ call.lookup = "miss"
    /\ call.outcome = "returned"
    /\ call.clone_calls = 0
    /\ target[call.target_dir].exists

\* C13: when, on the cache-hit path, the copy of the cached tree or the git
\* checkout failed, a call that returns successfully has removed the target
\* directory and executed a fresh git clone.
C13_FailedCopyIsDiscarded ==
    (/\ call.hit \in {"copytree failed", "checkout failed"}
     /\ call.outcome = "returned")
    => /\ call.cleanup = "removed"
       /\ call.clone_calls >= 1

\* C14: with use_cache enabled, no entry under the pair's key and no target
\* directory, a successful git clone is followed by cache_repo for the pair;
\* when cache_repo succeeds the metadata holds the pair's entry, and whether
\* it succeeds or fails the call returns successfully with the clone in
\* place.
C14_CloneThenCache ==
    (/\ call.use_cache
     /\ call.lookup = "miss"
     /\ ~call.existed
     /\ call.clone_calls >= 1
     /\ call.git_raised = NoError)
    => /\ call.cached \in {"True", "False"}
       /\ call.outcome = "returned"
       /\ target[call.target_dir] = SourceDir(call.target_dir)
       /\ call.cached = "True" =>
             /\ CallKey \in DOMAIN metadata
             /\ metadata[CallKey] = Entry(call.url, call.branch, call.seq,
                                          call.target_dir)

C14_Witness ==
    /\ call.use_cache
    /\ call.lookup = "miss"
    /\ ~call.existed
    /\ call.clone_calls = 2
    /\ call.cached = "False"
    /\ call.outcome = "returned"
    /\ target[call.target_dir].exists
    /\ CallKey \notin DOMAIN metadata

C16_NoMutationDuringCopy ==
    [][ \A t \in Threads :
           (thread[t].pc = "copytree" /\ thread'[t].pc = "copytree")
           => cache_dirs'[thread[t].key] = cache_dirs[thread[t].key] ]_vars

(***************************************************************************)
(* Properties of main.                                                     *)
(***************************************************************************)

\* Whether main has called fn, and whether a call of fn ended as how.
Called(fn) == \E i \in DOMAIN steps : steps[i][1] = fn

Ended(fn, how) == \E i \in DOMAIN steps : steps[i] = <<fn, how>>

\* C17: when the process exits after main started the workflow (it called
\* check_prerequisites) with keep_containers false, cleanup_containers has
\* been called; the exit status is that of the tests when they ran and the
\* cleanup returned, 130 when a KeyboardInterrupt was caught and 1 when an
\* exception was caught (the cleanup of the except clause having returned).
C17_CleanupOnEveryExit ==
    (main_pc = "exited" /\ Called("check_prerequisites")
        /\ ~config.keep_containers)
    => /\ Called("cleanup_containers")
       /\ (Ended("run_tests", "returned")
             /\ steps[Len(steps)] = <<"cleanup_containers", "returned">>)
          => exit_code = tests_exit
       /\ (\E fn \in {"check_prerequisites", "build_docker_image", "run_tests"} :
              Ended(fn, "KeyboardInterrupt"))
             /\ steps[Len(steps)] = <<"cleanup_containers", "returned">>
          => exit_code = 130
       /\ (\E fn \in {"check_prerequisites", "build_docker_image", "run_tests"} :
              Ended(fn, "Exception"))
             /\ steps[Len(steps)] = <<"cleanup_containers", "returned">>
          => exit_code = 1

(***************************************************************************)
(* Properties of load_config.                                              *)
(***************************************************************************)

\* The value precedence gives a setting: the command line's if the flag was
\* given, else the environment's, else the file's, else the default.
Precede(cli, env, file, default) ==
    IF cli # {} THEN Elem(cli)
    ELSE IF env # {} THEN Elem(env)
    ELSE IF file # {} THEN Elem(file)
    ELSE default

\* C18: when load_config returns, each setting has the command-line value if
\* its flag was given, otherwise the value of its environment variable if
\* set, otherwise the value of the .env file if present, otherwise the
\* default (for build jobs and keep-containers: whenever the texts in the
\* environment and the file are well-formed numbers and booleans).
C18_PrecedenceCliEnvFileDefault ==
    [][ (load_pc = "start" /\ load_pc' = "returned")
        => /\ app_config'.test_suite
                = Precede(argv.test_suite, environ.BTC_TEST_SUITE,
                          env_file.BTC_TEST_SUITE, "both")
           /\ app_config'.branch
                = Precede(argv.branch, environ.BTC_REPO_BRANCH,
                          env_file.BTC_REPO_BRANCH, "master")
           /\ (\A v \in environ.BTC_BUILD_JOBS \cup env_file.BTC_BUILD_JOBS :
                   int(v) # {})
              => app_config'.parallel_jobs
                   = (IF argv.build_jobs # {} THEN argv.build_jobs
                      ELSE IF environ.BTC_BUILD_JOBS # {}
                      THEN int(Elem(environ.BTC_BUILD_JOBS))
                      ELSE IF env_file.BTC_BUILD_JOBS # {}
                      THEN int(Elem(env_file.BTC_BUILD_JOBS))
                      ELSE {})
           /\ (\A v \in environ.BTC_KEEP_CONTAINERS
                          \cup env_file.BTC_KEEP_CONTAINERS :
                   lower(v) \in {"true", "1", "yes", "on",
                                 "false", "0", "no", "off"})
              => app_config'.keep_containers
                   = (IF argv.keep_containers THEN TRUE
                      ELSE IF environ.BTC_KEEP_CONTAINERS # {}
                      THEN lower(Elem(environ.BTC_KEEP_CONTAINERS))
                              \in {"true", "1", "yes", "on"}
                      ELSE IF env_file.BTC_KEEP_CONTAINERS # {}
                      THEN lower(Elem(env_file.BTC_KEEP_CONTAINERS))
                              \in {"true", "1", "yes", "on"}
                      ELSE FALSE) ]_vars

(***************************************************************************)
(* Properties of docker_container_lock.                                    *)
(***************************************************************************)

\* The threads inside the body of a docker_container_lock context.
InBody == { t \in Threads : contexts[t].stack # <<>> }

\* C19: after every step at most one thread is inside a body, and it holds
\* the lock; a thread whose acquire timed out got TimeoutError without
\* entering the body, registering a container or touching the lock; and a
\* thread leaving a body, by return or by exception, has released the lock
\* once, which frees it when the thread left its outermost context.
C19_DockerOperationsSerialized ==
    [][ /\ Cardinality(InBody') <= 1
        /\ \A t \in InBody' : _docker_lock'.owner = t
        /\ \A t \in Threads :
              /\ (contexts'[t] # contexts[t] /\ contexts'[t].last = "TimeoutError")
                 => /\ contexts'[t].stack = contexts[t].stack
                    /\ _active_containers' = _active_containers
                    /\ _docker_lock' = _docker_lock
              /\ Len(contexts'[t].stack) < Len(contexts[t].stack)
                 => /\ contexts'[t].last \in {"returned", "raised"}
                    /\ _docker_lock'.count = _docker_lock.count - 1
                    /\ (contexts'[t].stack = <<>>
                          => _docker_lock' = Unlocked) ]_vars

C19_Witness ==
    \E t \in Threads, u \in Threads :
        /\ contexts[t].last = "raised"
        /\ contexts[t].stack = <<>>
        /\ contexts[u].last = "TimeoutError"
        /\ contexts[u].stack = <<>>
        /\ _docker_lock = Unlocked
        /\ _active_containers = {}

(***************************************************************************)
(* Properties of emergency_cleanup.                                        *)
(***************************************************************************)

\* The sequence q holds every element of the set S exactly once.
EachOnce(q, S) ==
    /\ Len(q) = Cardinality(S)
    /\ { q[i] : i \in DOMAIN q } = S

\* What holds when emergency_cleanup has returned: nothing is tracked any
\* more, and each container, temporary directory and handler tracked when
\* it was called has been attempted exactly once.
AllAttemptedAndCleared ==
    /\ _active_containers = {}
    /\ _temp_directories = {}
    /\ _cleanup_handlers = <<>>
    /\ EachOnce(cleanup.containers, cleanup.start.containers)
    /\ EachOnce(cleanup.temp_dirs, cleanup.start.temp_dirs)
    /\ cleanup.handlers = cleanup.start.handlers

ExhaustedErrors ==
    {"NetworkConnectionError", "RuntimeError", "NetworkTimeoutError", "OSError"}

\* The raise after the loop has been executed.
FallbackReached == rpc = "raised" /\ attempt >= max_retries

\* C22: with max_retries >= 1 the command is executed at most max_retries
\* times; while the call is in the loop another execution follows (each
\* iteration executes the command once); the call ends returning the result
\* of a successful execution (Success), or raising a permanent error
\* (PermanentFailure) or the error of a retryable outcome after max_retries
\* executions (ExhaustedFailure), exactly one of the three; the raise after
\* the loop is never executed.
C22_EndsInOneTerminalState ==
    (max_retries >= 1 /\ rpc # "idle") =>
        /\ calls <= max_retries
        /\ calls = Len(hist)
        /\ ~FallbackReached
        /\ rpc = "loop" => (attempt < max_retries /\ calls = attempt)
        /\ rpc = "returned" =>
              /\ hist[Len(hist)] = "Success"
              /\ raised = "none"
              /\ result = calls
        /\ rpc = "raised" =>
              /\ hist[Len(hist)] # "Success"
              /\ result = 0
              /\ calls = max_retries
              /\ raised \in PermanentErrors \cup ExhaustedErrors
              /\ raised \in PermanentErrors <=> hist[Len(hist)] \in PermanentErrors

C22_Witness ==
    /\ rpc = "raised"
    /\ max_retries = 3
    /\ hist = <<"TimeoutExpired", "OSError", "SSLError">>
    /\ raised = "SSLError"
    /\ ~FallbackReached

C21_ClearLeavesNothing ==
    op.name = "clear_cache" =>
        /\ metadata = EmptyMetadata
        /\ meta_file = EmptyMetadata
        /\ ExistingDirs(disk) = {}

\* C21, amended: when clear_cache could list the cache directory, the
\* metadata in memory is empty afterwards, the metadata file is empty unless
\* it could not be written, and an entry directory remains only where rmtree
\* failed; while the metadata in memory is empty every get_cached_repo
\* returns None, and it stays empty until a cache_repo returns True or a new
\* process loads the metadata file.
C21_ClearedUnlessFaulted ==
    [][/\ (op'.name = "clear_cache" /\ op'.fault # "iterdir") =>
              /\ metadata' = EmptyMetadata
              /\ op'.fault # "save" => meta_file' = EmptyMetadata
              /\ op'.fault # "rmtree" => ExistingDirs(disk') = {}
              /\ Cardinality(ExistingDirs(disk')) <= 1
       /\ (metadata = EmptyMetadata /\ op'.name = "get_cached_repo") =>
              op'.ret = "None"
       /\ (metadata = EmptyMetadata /\ metadata' # EmptyMetadata) =>
              \/ op'.name = "cache_repo" /\ op'.ret = "True"
              \/ op' = NoOp /\ metadata' = meta_file
      ]_vars

C21_Witness ==
    /\ op.name = "clear_cache"
    /\ op.fault = "save"
    /\ metadata = EmptyMetadata
    /\ meta_file # EmptyMetadata
    /\ ExistingDirs(disk) = {}

(***************************************************************************)
(* Properties of the cache over sequences of operations.                   *)
(***************************************************************************)

\* The trees a successful cache_repo leaves: the complete copy of a source.
CompleteTrees == { ExpectedCopy(sp) : sp \in { x \in SourcePaths : SourceDir(x).exists } }

\* C24: the directory a get_cached_repo hit returns exists and holds the
\* complete tree a successful cache_repo copied, never the partial tree a
\* failed cache_repo left.
C24_HitReturnsCompleteTree ==
    (op.name = "get_cached_repo" /\ op.ret # "None") =>
        /\ disk[OpKey].exists
        /\ disk[OpKey].files \in CompleteTrees

\* C25: an operation of the cache in which nothing fails keeps the combined
\* size of the entries within the cap: when the size was within
\* max_cache_size_gb before a cache_repo, an eviction or a clear_cache, it is
\* within it afterwards.
C25_SizeCapIsInvariant ==
    [][ (/\ op'.name \in {"cache_repo", "_cleanup_old_cache", "clear_cache"}
         /\ op'.fault = "none"
         /\ TotalSize(disk) <= MaxCacheSize)
        => TotalSize(disk') <= MaxCacheSize ]_vars

(***************************************************************************)
(* Properties of clone_bitcoin_repo_enhanced about the target directory.   *)
(***************************************************************************)

\* C26: when target_dir existed as the call began, target_dir exists when
\* the call has returned or raised.
C26_ExistingTargetSurvives ==
    (call.seq # 0 /\ call.existed /\ call.outcome # "") =>
        target[call.target_dir].exists

(***************************************************************************)
(* Properties of concurrent calls of clone_bitcoin_repo_enhanced.          *)
(***************************************************************************)

\* C27: at most one thread at a time is between the existence check that
\* found target_dir absent and the end of its git clone, so at most one of
\* two concurrent calls executes git clone.
C27_CheckAndCloneAtomic ==
    Cardinality({ t \in Threads : cloner[t].pc \in {"clone", "cloning"} }) <= 1

(***************************************************************************)
(* Properties of the tracking of containers.                               *)
(***************************************************************************)

\* The names of the contexts thread t is inside (None left out).
NamesOf(t) ==
    { contexts[t].stack[i] : i \in DOMAIN contexts[t].stack } \ {""}

\* C28: the name of every docker_container_lock(name) context a thread is
\* inside is tracked in _active_containers, nested contexts of one name
\* included, and a name no thread is inside a context of is not tracked.
C28_TrackedWhileInside ==
    _active_containers = UNION { NamesOf(t) : t \in Threads }

(***************************************************************************)
(* Properties of PerformanceMonitor.                                       *)
(***************************************************************************)

\* C29: a PerformanceMonitor has at most one live sampling thread.
C29_AtMostOneSampler == Cardinality(live) <= 1

(***************************************************************************)
(* Properties of the list of cleanup handlers.                             *)
(***************************************************************************)

\* C30: no handler is removed from _cleanup_handlers without having been
\* called: whenever a step shortens the list, the list held exactly the
\* handlers emergency_cleanup has invoked.
C30_NoHandlerLost ==
    [][ Len(_cleanup_handlers') < Len(_cleanup_handlers)
        => _cleanup_handlers = cleanup.handlers ]_vars

====
